---- MODULE Spec2Model ----
(***************************************************************************)
(* Model of the execution/analysis core of web-spec:                       *)
(*   - BatchExecutor        (src/src/execution/batch.rs)                   *)
(*   - compare_results      (src/src/execution/comparison.rs)              *)
(*   - StepRegistry, main   (src/examples/gherkin_runner.rs)               *)
(*   - the result tree      (src/src/execution/result.rs)                  *)
(*   - PerformanceMonitor   (src/src/execution/alerts.rs)                  *)
(*   - StepCatalog          (src/src/discovery/catalog.rs,                 *)
(*                           src/src/validation/step.rs)                   *)
(* Each component has its own specification (SpecBatch, SpecCmp, SpecReg,  *)
(* SpecAlt, SpecRes, SpecTwin, SpecMon, SpecRun, SpecCat); the variables   *)
(* of the other components stay at their initial value in it.              *)
(***************************************************************************)
EXTENDS Integers, Sequences, FiniteSets, TLC

VARIABLES
    config,      \* BatchExecutor.config
    bpc,         \* position of BatchExecutor::execute: "idle", "running", "done"
    paths,       \* the paths argument of execute
    total,       \* BatchProgress.total
    completed,   \* BatchProgress.completed (the value behind the mutex)
    lockHolder,  \* thread holding the mutex of BatchProgress.completed, 0 if free
    claimed,     \* indices of paths whose map closure has been started
    calls,       \* per index of paths: number of invocations of the runner
    returned,    \* per index of paths: what the runner returned for it
    worker,      \* per thread: its position inside execute_feature
    slots,       \* per index of paths: the FeatureResult collected for it
    batch,       \* the BatchResult returned by execute
    baseline,    \* compare_results: the baseline ExecutionResult
    current,     \* compare_results: the current ExecutionResult
    cpc,         \* "ready" before compare_results is called, "done" after
    comparison,  \* the ComparisonResult returned
    registry,    \* StepRegistry.patterns: the (pattern, name) entries in order
    rpc,         \* "building" inside build_step_registry, "built" after it,
                 \* "matched" once match_step has been called
    stepText,    \* the text given to the last match_step call
    matched      \* what the last match_step call returned

VARIABLES
    scenario,  \* the ScenarioResult being built
    result,    \* the ExecutionResult being built
    rop,       \* the last operation on the result tree
    supdates,  \* update_status calls made on scenario so far
    rcalls     \* calls made on the result tree so far

VARIABLES
    monitor,      \* the PerformanceMonitor
    alertConfig,  \* the AlertConfig given to the last evaluate_thresholds call
    alerts,       \* the alerts the last evaluate_thresholds call returned
    mop,          \* the last operation on the monitor
    mrecords,     \* record_scenario, record_step and set_metric calls so far
    evals,        \* evaluate_thresholds calls so far
    now           \* nanoseconds from PerformanceMonitor::new() to the last clock reading

VARIABLES
    feature,     \* the parsed Feature: its scenarios, each a list of step texts
    scIdx,       \* index of the scenario the outer loop of main is at
    stIdx,       \* step_idx of the inner loop
    all_passed,  \* the all_passed flag of the scenario being run
    executed,    \* log of the steps run: scenario, step index, text, outcome
    reported,    \* per scenario finished: the verdict printed
    runpc        \* position of main: "steps", "awaiting", "report" or "done"

VARIABLES
    catalog,    \* StepCatalog.steps: the StepInfo entries added so far
    catpc,      \* "building" inside build_step_catalog, "built" after it
    vtext,      \* the text given to the last validate_step call
    validated   \* what the last validate_step call returned: "Ok" or "Err"

VARIABLES
    other,  \* a second ScenarioResult, built independently of scenario
    oop     \* the last operation on other

batchVars == <<config, bpc, paths, total, completed, lockHolder, claimed,
               calls, returned, worker, slots, batch>>

cmpVars == <<baseline, current, cpc, comparison>>

regVars == <<registry, rpc, stepText, matched>>

resVars == <<scenario, result, rop, supdates, rcalls>>

monVars == <<monitor, alertConfig, alerts, mop, mrecords, evals, now>>

runVars == <<feature, scIdx, stIdx, all_passed, executed, reported, runpc>>

catVars == <<catalog, catpc, vtext, validated>>

twinVars == <<other, oop>>

vars == <<batchVars, cmpVars, regVars, resVars, monVars, runVars, catVars, twinVars>>

None == [none |-> TRUE]

(***************************************************************************)
(* Generic helpers on sequences                                            *)
(***************************************************************************)
RECURSIVE SumSeq(_)
SumSeq(s) == IF s = <<>> THEN 0 ELSE Head(s) + SumSeq(Tail(s))

RECURSIVE SumFn(_, _)
SumFn(f, S) ==
    IF S = {} THEN 0
    ELSE LET x == CHOOSE y \in S : TRUE IN f[x] + SumFn(f, S \ {x})

(***************************************************************************)
(* Batch executor                                                          *)
(***************************************************************************)
MaxPaths == 3
MaxWorkers == 2

Workers == 1..MaxWorkers

\* BatchConfig: the fields execute could read (timeout_seconds and
\* output_format are never read by execute).
BatchConfig == [parallel : BOOLEAN, max_workers : 1..MaxWorkers,
                continue_on_failure : BOOLEAN]

\* What the runner closure may return for a path: Err(message) or
\* Ok(ExecutionResult). Of the ExecutionResult only status and the scenario
\* counters of its summary are read by the batch executor.
ErrMessages == {"Simulated failure"}

RunnerErr(m) == [ok |-> FALSE, message |-> m]

ExecutionResultOf(st, tot, p, f, sk) ==
    [status |-> st,
     summary |-> [total_scenarios |-> tot, passed_scenarios |-> p,
                  failed_scenarios |-> f, skipped_scenarios |-> sk]]

RunnerOk(er) == [ok |-> TRUE, result |-> er]

RunnerResults ==
    {RunnerErr(m) : m \in ErrMessages} \cup
    {RunnerOk(ExecutionResultOf("passed", 2, 2, 0, 0)),
     RunnerOk(ExecutionResultOf("failed", 3, 1, 1, 1)),
     RunnerOk(ExecutionResultOf("skipped", 1, 0, 0, 1))}

\* The path list given to execute: n distinct feature files.
PathOf(i) == i
PathList(n) == [i \in 1..n |-> PathOf(i)]

IdleWorker == [pc |-> "idle", idx |-> 0, result |-> None, tmp |-> 0]

\* execute, line 145: the parallel branch is taken only for more than one path.
IsParallel == config.parallel /\ total > 1

\* The threads that run the map closure: the rayon pool's threads in the
\* parallel branch, the calling thread alone otherwise.
ActiveThreads == IF IsParallel THEN 1..config.max_workers ELSE {1}

\* The next index a thread may take. The sequential iterator yields the paths
\* in list order; the parallel iterator hands every index to exactly one
\* thread, in any order.
CanStartAnyOrder(w, i) ==
    /\ w \in ActiveThreads
    /\ i \in 1..Len(paths)
    /\ i \notin claimed

CanStartAlreadyClaimed(w, i) ==
    /\ w \in ActiveThreads
    /\ i \in 1..Len(paths)
    /\ ~IsParallel => \A j \in 1..(i - 1) : j \in claimed

CanStart(w, i) ==
    /\ w \in ActiveThreads
    /\ i \in 1..Len(paths)
    /\ i \notin claimed
    /\ ~IsParallel => \A j \in 1..(i - 1) : j \in claimed

\* Mutex<usize>::lock of BatchProgress.completed
MutexFreeUnguarded == TRUE

MutexFree == lockHolder = 0

\* execute_feature, lines 219-253: the FeatureResult built from the runner's
\* return value.
FeatureResultErrStatus(p, r) ==
    IF r.ok
    THEN [path |-> p, status |-> r.result.status,
          scenarios_passed |-> r.result.summary.passed_scenarios,
          scenarios_failed |-> r.result.summary.failed_scenarios,
          result |-> r.result]
    ELSE [path |-> p, status |-> "error",
          scenarios_passed |-> 0, scenarios_failed |-> 0, result |-> None]

FeatureResultOf(p, r) ==
    IF r.ok
    THEN [path |-> p, status |-> r.result.status,
          scenarios_passed |-> r.result.summary.passed_scenarios,
          scenarios_failed |-> r.result.summary.failed_scenarios,
          result |-> r.result]
    ELSE [path |-> p, status |-> "failed",
          scenarios_passed |-> 0, scenarios_failed |-> 0, result |-> None]

IsPassed(r) == r.status = "passed"
IsNotPassed(r) == r.status # "passed"
IsFailed(r) == r.status = "failed"
HasNoResult(r) == r.result = None
SummaryTotal(r) == IF r.result = None THEN 0 ELSE r.result.summary.total_scenarios
BatchErrorOf(r) == [path |-> r.path, error |-> "Feature execution failed"]
BatchErrors(rs) == [i \in 1..Len(rs) |-> BatchErrorOf(rs[i])]

\* execute, lines 168-199: the aggregates computed from the collected results.
AggregateTrackedTotal(n, results) ==
    [total_features |-> n,
     passed_features |-> Len(SelectSeq(results, IsPassed)),
     failed_features |-> Len(SelectSeq(results, IsFailed)),
     total_scenarios |-> SumSeq([i \in 1..Len(results) |-> SummaryTotal(results[i])]),
     passed_scenarios |-> SumSeq([i \in 1..Len(results) |-> results[i].scenarios_passed]),
     failed_scenarios |-> SumSeq([i \in 1..Len(results) |-> results[i].scenarios_failed]),
     results |-> results,
     errors |-> BatchErrors(SelectSeq(results, HasNoResult))]

Aggregate(n, results) ==
    [total_features |-> n,
     passed_features |-> Len(SelectSeq(results, IsPassed)),
     failed_features |-> Len(SelectSeq(results, IsFailed)),
     total_scenarios |-> SumSeq([i \in 1..Len(results) |->
                                    results[i].scenarios_passed + results[i].scenarios_failed]),
     passed_scenarios |-> SumSeq([i \in 1..Len(results) |-> results[i].scenarios_passed]),
     failed_scenarios |-> SumSeq([i \in 1..Len(results) |-> results[i].scenarios_failed]),
     results |-> results,
     errors |-> BatchErrors(SelectSeq(results, HasNoResult))]

\* collect(), lines 157 and 163: the FeatureResults mapped so far, in the
\* order of their paths.
IsMapped(s) == s # None
Collected == SelectSeq(slots, IsMapped)

\* collect() returns once the closure has been applied to every path; a
\* runner error does not end it, whatever continue_on_failure says.
CollectDoneStopOnFailure ==
    \/ \A i \in 1..Len(paths) : slots[i] # None
    \/ /\ ~config.continue_on_failure
       /\ \E i \in 1..Len(paths) : slots[i] # None /\ slots[i].result = None
       /\ \A w \in Workers : worker[w].pc = "idle"

CollectDone == \A i \in 1..Len(paths) : slots[i] # None

BatchInit ==
    /\ config \in BatchConfig
    /\ bpc = "idle"
    /\ paths = <<>>
    /\ total = 0
    /\ completed = 0
    /\ lockHolder = 0
    /\ claimed = {}
    /\ calls = <<>>
    /\ returned = <<>>
    /\ worker = [w \in Workers |-> IdleWorker]
    /\ slots = <<>>
    /\ batch = None
    \* the comparison engine and the step registry are not used
    /\ baseline = None
    /\ current = None
    /\ cpc = "ready"
    /\ comparison = None
    /\ registry = <<>>
    /\ rpc = "building"
    /\ stepText = <<>>
    /\ matched = None
    \* no result tree is being built
    /\ scenario = None
    /\ result = None
    /\ rop = "none"
    /\ supdates = 0
    /\ rcalls = 0
    \* no performance monitor is in use
    /\ monitor = None
    /\ alertConfig = None
    /\ alerts = <<>>
    /\ mop = "none"
    /\ mrecords = 0
    /\ evals = 0
    /\ now = 0
    \* no feature is being run
    /\ feature = <<>>
    /\ scIdx = 1
    /\ stIdx = 1
    /\ all_passed = TRUE
    /\ executed = <<>>
    /\ reported = <<>>
    /\ runpc = "done"
    \* no step catalog is in use
    /\ catalog = <<>>
    /\ catpc = "building"
    /\ vtext = <<>>
    /\ validated = "none"
    \* no second scenario is being built
    /\ other = None
    /\ oop = "none"

\* execute, lines 140-143: a fresh BatchProgress for the n paths given.
Execute(n) ==
    /\ bpc = "idle"
    /\ bpc' = "running"
    /\ paths' = PathList(n)
    /\ total' = n
    /\ completed' = 0
    /\ lockHolder' = 0
    /\ claimed' = {}
    /\ calls' = [i \in 1..n |-> 0]
    /\ returned' = [i \in 1..n |-> None]
    /\ slots' = [i \in 1..n |-> None]
    /\ UNCHANGED <<cmpVars, regVars, resVars, monVars, runVars, catVars, twinVars>>
    /\ UNCHANGED <<config, worker, batch>>

\* execute_feature, lines 207-215: thread w takes paths[i] and calls the runner.
ExecuteFeatureCall(w, i) ==
    /\ bpc = "running"
    /\ worker[w].pc = "idle"
    /\ CanStart(w, i)
    /\ claimed' = claimed \cup {i}
    /\ calls' = [calls EXCEPT ![i] = @ + 1]
    /\ worker' = [worker EXCEPT ![w] = [pc |-> "called", idx |-> i,
                                        result |-> None, tmp |-> 0]]
    /\ UNCHANGED <<cmpVars, regVars, resVars, monVars, runVars, catVars, twinVars>>
    /\ UNCHANGED <<config, bpc, paths, total, completed, lockHolder, returned,
                   slots, batch>>

\* execute_feature, line 215: the runner returns r to thread w.
RunnerReturn(w, r) ==
    /\ bpc = "running"
    /\ worker[w].pc = "called"
    /\ worker' = [worker EXCEPT ![w].pc = "returned", ![w].result = r]
    /\ returned' = [returned EXCEPT ![worker[w].idx] = r]
    /\ UNCHANGED <<cmpVars, regVars, resVars, monVars, runVars, catVars, twinVars>>
    /\ UNCHANGED <<config, bpc, paths, total, completed, lockHolder, claimed,
                   calls, slots, batch>>

\* increment_completed, line 81: take the mutex and read the counter.
ProgressLock(w) ==
    /\ bpc = "running"
    /\ worker[w].pc = "returned"
    /\ MutexFree
    /\ lockHolder' = w
    /\ worker' = [worker EXCEPT ![w].pc = "locked", ![w].tmp = completed]
    /\ UNCHANGED <<cmpVars, regVars, resVars, monVars, runVars, catVars, twinVars>>
    /\ UNCHANGED <<config, bpc, paths, total, completed, claimed, calls,
                   returned, slots, batch>>

\* increment_completed, line 82 and the release of the guard at line 83; the
\* thread is back in execute_feature, its FeatureResult not yet built.
ProgressIncrement(w) ==
    /\ bpc = "running"
    /\ worker[w].pc = "locked"
    /\ completed' = worker[w].tmp + 1
    /\ lockHolder' = 0
    /\ worker' = [worker EXCEPT ![w].pc = "incremented"]
    /\ UNCHANGED <<cmpVars, regVars, resVars, monVars, runVars, catVars, twinVars>>
    /\ UNCHANGED <<config, bpc, paths, total, claimed, calls, returned, slots,
                   batch>>

\* execute_feature, lines 228-236 and 243-251, and collect(), lines 157 and
\* 163: the FeatureResult is built, returned and stored in its place of the
\* collection; the thread is free for another path.
FeatureReturn(w) ==
    /\ bpc = "running"
    /\ worker[w].pc = "incremented"
    /\ slots' = [slots EXCEPT ![worker[w].idx] =
                    FeatureResultOf(paths[worker[w].idx], worker[w].result)]
    /\ worker' = [worker EXCEPT ![w] = IdleWorker]
    /\ UNCHANGED <<cmpVars, regVars, resVars, monVars, runVars, catVars, twinVars>>
    /\ UNCHANGED <<config, bpc, paths, total, completed, lockHolder, claimed,
                   calls, returned, batch>>

\* execute, lines 157/163 and 166-199: collect() ends once every item has
\* been mapped; the aggregates are computed and the BatchResult returned.
ExecuteReturn ==
    /\ bpc = "running"
    /\ CollectDone
    /\ batch' = Aggregate(total, Collected)
    /\ bpc' = "done"
    /\ UNCHANGED <<cmpVars, regVars, resVars, monVars, runVars, catVars, twinVars>>
    /\ UNCHANGED <<config, paths, total, completed, lockHolder, claimed, calls,
                   returned, worker, slots>>

BatchNext ==
    \/ \E n \in 0..MaxPaths : Execute(n)
    \/ \E w \in Workers, i \in 1..MaxPaths : ExecuteFeatureCall(w, i)
    \/ \E w \in Workers, r \in RunnerResults : RunnerReturn(w, r)
    \/ \E w \in Workers : ProgressLock(w)
    \/ \E w \in Workers : ProgressIncrement(w)
    \/ \E w \in Workers : FeatureReturn(w)
    \/ ExecuteReturn

SpecBatch == BatchInit /\ [][BatchNext]_vars

(***************************************************************************)
(* Comparison engine                                                       *)
(*                                                                         *)
(* Durations are u64 milliseconds; the percentages the code computes in    *)
(* f64 from two whole numbers, (a as f64 / b as f64) * 100.0 > p, are      *)
(* compared here as 100 * a > p * b, which is the same verdict for all     *)
(* a, b below 2^53, division by zero (an infinite or NaN percentage)       *)
(* included.  A step change keeps the mean duration of a step text as its  *)
(* sum and count.  The percentage between two means is the result of five  *)
(* rounded f64 operations: where it lies exactly on a threshold the        *)
(* operations are carried out digit by digit, with the rounding of f64,    *)
(* because a mean that is not representable in f64 moves the result off    *)
(* the threshold.  The impact and improvement values of the items are the  *)
(* f64 values the code computes.  The vectors the code fills while         *)
(* iterating over a HashMap have no specified order and hold no item       *)
(* twice; they are modelled as sets.                                       *)
(***************************************************************************)
StepOf(t, d) == [text |-> t, duration_ms |-> d]

ScenarioOf(n, st, d, steps) ==
    [name |-> n, status |-> st, duration_ms |-> d, steps |-> steps]

ResultOf(scs) == [scenarios |-> scs]

SetMax(S) == CHOOSE x \in S : \A y \in S : y <= x

\* the keys of the HashMap collected from r.scenarios (lines 176-186)
ScenarioNamesOf(r) == {r.scenarios[i].name : i \in 1..Len(r.scenarios)}

\* HashMap::get on that map: collecting (name, scenario) pairs keeps, for a
\* repeated name, the last scenario of that name.
LastNamed(r, n) ==
    r.scenarios[SetMax({i \in 1..Len(r.scenarios) : r.scenarios[i].name = n})]

\* (delta as f64 / base as f64) * 100.0 > pct, lines 229-231 and 238
PercentAtLeast(delta, base, pct) == 100 * delta >= pct * base

PercentExceeds(delta, base, pct) == 100 * delta > pct * base

\* Option<String>: Some(x) is <<x>>, None is <<>>
Some(x) == <<x>>
Absent == <<>>

(***************************************************************************)
(* f64 arithmetic.  The code computes its percentages, means, rates and    *)
(* impact values in f64 (IEEE 754 binary64, round to nearest, ties to      *)
(* even); the model computes them digit by digit.                          *)
(***************************************************************************)
Abs(x) == IF x < 0 THEN -x ELSE x

\* A natural number of any size is the sequence of its digits in base
\* LimbBase, lowest first, without leading zeros; zero is the empty sequence.
LimbBase == 2^13

RECURSIVE BitLenOf(_)
BitLenOf(n) == IF n = 0 THEN 0 ELSE 1 + BitLenOf(n \div 2)

LimbBits == BitLenOf(LimbBase - 1)

RECURSIVE LimbsOf(_)
LimbsOf(n) == IF n = 0 THEN <<>> ELSE <<n % LimbBase>> \o LimbsOf(n \div LimbBase)

RECURSIVE TrimLimbs(_)
TrimLimbs(a) ==
    IF a = <<>> THEN <<>>
    ELSE IF a[Len(a)] = 0 THEN TrimLimbs(SubSeq(a, 1, Len(a) - 1))
    ELSE a

LimbAt(a, i) == IF i <= Len(a) THEN a[i] ELSE 0

BitLen(a) ==
    IF a = <<>> THEN 0 ELSE LimbBits * (Len(a) - 1) + BitLenOf(a[Len(a)])

RECURSIVE AddLimbsFrom(_, _, _, _)
AddLimbsFrom(a, b, i, carry) ==
    IF i > Len(a) /\ i > Len(b) THEN (IF carry = 1 THEN <<1>> ELSE <<>>)
    ELSE LET s == LimbAt(a, i) + LimbAt(b, i) + carry
         IN  <<s % LimbBase>> \o AddLimbsFrom(a, b, i + 1, s \div LimbBase)

AddLimbs(a, b) == AddLimbsFrom(a, b, 1, 0)

\* a - b for a >= b
RECURSIVE SubLimbsFrom(_, _, _, _)
SubLimbsFrom(a, b, i, borrow) ==
    IF i > Len(a) THEN <<>>
    ELSE LET d == LimbAt(a, i) - LimbAt(b, i) - borrow
         IN  <<(d + LimbBase) % LimbBase>>
                \o SubLimbsFrom(a, b, i + 1, IF d < 0 THEN 1 ELSE 0)

SubLimbs(a, b) == TrimLimbs(SubLimbsFrom(a, b, 1, 0))

RECURSIVE LessLimbsFrom(_, _, _)
LessLimbsFrom(a, b, i) ==
    IF i = 0 THEN FALSE
    ELSE IF a[i] # b[i] THEN a[i] < b[i]
    ELSE LessLimbsFrom(a, b, i - 1)

LessLimbs(a, b) ==
    IF Len(a) # Len(b) THEN Len(a) < Len(b) ELSE LessLimbsFrom(a, b, Len(a))

\* a * s for 0 <= s < LimbBase
RECURSIVE MulSmallFrom(_, _, _, _)
MulSmallFrom(a, s, i, carry) ==
    IF i > Len(a) THEN (IF carry = 0 THEN <<>> ELSE <<carry>>)
    ELSE LET p == a[i] * s + carry
         IN  <<p % LimbBase>> \o MulSmallFrom(a, s, i + 1, p \div LimbBase)

MulSmall(a, s) == IF s = 0 THEN <<>> ELSE MulSmallFrom(a, s, 1, 0)

\* a * 2^k
ShiftLimbs(a, k) ==
    IF a = <<>> THEN <<>>
    ELSE [i \in 1..(k \div LimbBits) |-> 0] \o MulSmall(a, 2^(k % LimbBits))

RECURSIVE MulLimbs(_, _)
MulLimbs(a, b) ==
    IF b = <<>> \/ a = <<>> THEN <<>>
    ELSE AddLimbs(MulSmall(a, Head(b)),
                  TrimLimbs(<<0>> \o MulLimbs(a, Tail(b))))

\* the two digits of r from digit i up, as one number
TopDigits(r, i) == LimbAt(r, i + 1) * LimbBase + LimbAt(r, i)

\* for r < b * LimbBase, a digit at or above the quotient of r by b: the
\* quotient of the top two digits of r, counted from the top digit of b,
\* by the top digit of b
DigitGuess(t, top) ==
    IF t \div top < LimbBase THEN t \div top ELSE LimbBase - 1

\* the quotient digit s of r by b and the remainder r - b * s, from a digit
\* s at or above it and p = b * s
RECURSIVE DigitDown(_, _, _, _)
DigitDown(r, b, s, p) ==
    IF LessLimbs(r, p) THEN DigitDown(r, b, s - 1, SubLimbs(p, b))
    ELSE [s |-> s, r |-> IF s = 0 THEN r ELSE SubLimbs(r, p)]

DigitFrom(r, b, guess) == DigitDown(r, b, guess, MulSmall(b, guess))

DigitOf(r, b) == DigitFrom(r, b, DigitGuess(TopDigits(r, Len(b)), b[Len(b)]))

\* quotient and remainder of a by b > 0 by long division: r holds the
\* digits of a above digit i, less what was taken off, and q the digits of
\* the quotient found
RECURSIVE DivLimbsFrom(_, _, _, _, _)
DivLimbsFrom(a, b, i, q, r) ==
    IF i = 0 THEN [q |-> TrimLimbs(q), r |-> r, d |-> b]
    ELSE LET step == DigitOf(TrimLimbs(<<a[i]>> \o r), b)
         IN  DivLimbsFrom(a, b, i - 1, <<step.s>> \o q, step.r)

\* the top digits of a, one fewer than b has, are below b: the division
\* starts under them
DivLonger(a, b) ==
    IF Len(a) < Len(b) THEN [q |-> <<>>, r |-> a, d |-> b]
    ELSE DivLimbsFrom(a, b, Len(a) - Len(b) + 1, <<>>,
                      SubSeq(a, Len(a) - Len(b) + 2, Len(a)))

\* the binary digits the top digit of b leaves free
Slack(b) == LimbBits - BitLenOf(b[Len(b)])

\* the quotient q of a by b > 0, and the remainder r and the divisor d both
\* times 2^Slack(b): with a full top digit in the divisor a guessed digit
\* is at most 2 above the quotient digit
DivLimbs(a, b) ==
    IF b = <<1>> THEN [q |-> a, r |-> <<>>, d |-> b]
    ELSE DivLonger(ShiftLimbs(a, Slack(b)), ShiftLimbs(b, Slack(b)))

\* the binary digits of an f64 significand
F64Digits == 52 + 1

\* an f64: (-1)^neg * m * 2^e with m of F64Digits binary digits, or zero
F64Zero == [neg |-> FALSE, m |-> <<>>, e |-> 0]

\* n * 2^k < d * 2^F64Digits: the whole part of n * 2^k / d has at most
\* F64Digits binary digits
FitsDigits(n, d, k) ==
    IF k >= 0 THEN LessLimbs(ShiftLimbs(n, k), ShiftLimbs(d, F64Digits))
    ELSE LessLimbs(n, ShiftLimbs(d, F64Digits - k))

\* the k for which the whole part of n * 2^k / d has F64Digits binary
\* digits, k0 being that k or one more
QuotientShiftFrom(n, d, k0) == IF FitsDigits(n, d, k0) THEN k0 ELSE k0 - 1

QuotientShift(n, d) ==
    QuotientShiftFrom(n, d, F64Digits - (BitLen(n) - BitLen(d)))

\* n * 2^k / d as a quotient of two whole numbers
ScaledNum(n, k) == IF k >= 0 THEN ShiftLimbs(n, k) ELSE n
ScaledDen(d, k) == IF k >= 0 THEN d ELSE ShiftLimbs(d, 0 - k)

\* a significand that reached 2^F64Digits is halved
Normalised(neg, m, e) ==
    IF BitLen(m) > F64Digits
    THEN [neg |-> neg, m |-> ShiftLimbs(<<1>>, F64Digits - 1), e |-> e + 1]
    ELSE [neg |-> neg, m |-> m, e |-> e]

\* round to nearest, ties to even: the quotient qr.q goes up when the
\* remainder qr.r is more than half of qr.d, or half of it with qr.q odd
RoundsUp(d, q, twice) ==
    \/ LessLimbs(d, twice)
    \/ (twice = d /\ LimbAt(q, 1) % 2 = 1)

NearestEven(neg, qr, e) ==
    Normalised(neg,
               IF RoundsUp(qr.d, qr.q, AddLimbs(qr.r, qr.r))
               THEN AddLimbs(qr.q, <<1>>) ELSE qr.q,
               e)

RoundQuotient(neg, n, d, e, k) ==
    NearestEven(neg, DivLimbs(ScaledNum(n, k), ScaledDen(d, k)), e - k)

\* the f64 nearest to (-1)^neg * (n / d) * 2^e, the rounding of every f64
\* operation; n > 0, d > 0
F64Round(neg, n, d, e) == RoundQuotient(neg, n, d, e, QuotientShift(n, d))

RECURSIVE Gcd(_, _)
Gcd(a, b) == IF b = 0 THEN a ELSE Gcd(b, a % b)

\* n as f64 / d as f64 for whole numbers n and d > 0 below 2^31: both are
\* held exactly, and the quotient is taken in lowest terms
F64Ratio(n, d) ==
    IF n = 0 THEN F64Zero
    ELSE F64Round(FALSE, LimbsOf(n \div Gcd(n, d)), LimbsOf(d \div Gcd(n, d)), 0)

\* the low digits of a that are 0
RECURSIVE LowZeros(_)
LowZeros(a) == IF a = <<>> \/ Head(a) # 0 THEN 0 ELSE 1 + LowZeros(Tail(a))

\* the number x written m * 2^e with a digit other than 0 lowest in m: the
\* operations work on the shorter m
Stripped(x) ==
    [neg |-> x.neg,
     m |-> SubSeq(x.m, LowZeros(x.m) + 1, Len(x.m)),
     e |-> x.e + LimbBits * LowZeros(x.m)]

\* the lower exponent of two f64, zero having none
MinExp(x, y) ==
    IF x.m = <<>> THEN y.e
    ELSE IF y.m = <<>> THEN x.e
    ELSE IF x.e < y.e THEN x.e ELSE y.e

\* (xs - ys) * 2^e as f64
SubAligned(xs, ys, e) ==
    IF xs = ys THEN F64Zero
    ELSE F64Round(LessLimbs(xs, ys),
                  IF LessLimbs(xs, ys) THEN SubLimbs(ys, xs) ELSE SubLimbs(xs, ys),
                  <<1>>, e)

SubStripped(x, y) ==
    SubAligned(ShiftLimbs(x.m, x.e - MinExp(x, y)),
               ShiftLimbs(y.m, y.e - MinExp(x, y)), MinExp(x, y))

\* x - y for x, y >= 0
F64Sub(x, y) == SubStripped(Stripped(x), Stripped(y))

DivStripped(x, y) == F64Round(x.neg # y.neg, x.m, y.m, x.e - y.e)

\* x / y for y # 0
F64Div(x, y) ==
    IF x.m = <<>> THEN F64Zero ELSE DivStripped(Stripped(x), Stripped(y))

MulStripped(x, y) ==
    F64Round(x.neg # y.neg, MulLimbs(x.m, y.m), <<1>>, x.e + y.e)

\* x * y
F64Mul(x, y) ==
    IF x.m = <<>> \/ y.m = <<>> THEN F64Zero
    ELSE MulStripped(Stripped(x), Stripped(y))

\* x.abs() > n as f64 for a whole number n > 0
F64AbsExceeds(x, n) ==
    IF x.m = <<>> THEN FALSE
    ELSE IF x.e >= 0 THEN LessLimbs(LimbsOf(n), ShiftLimbs(x.m, x.e))
    ELSE LessLimbs(ShiftLimbs(LimbsOf(n), 0 - x.e), x.m)

AddStripped(x, y) ==
    F64Round(FALSE,
             AddLimbs(ShiftLimbs(x.m, x.e - MinExp(x, y)),
                      ShiftLimbs(y.m, y.e - MinExp(x, y))),
             <<1>>, MinExp(x, y))

\* x + y for x, y >= 0
F64Add(x, y) ==
    IF x.m = <<>> THEN y
    ELSE IF y.m = <<>> THEN x
    ELSE AddStripped(Stripped(x), Stripped(y))

\* x.abs()
F64Abs(x) == [x EXCEPT !.neg = FALSE]

LessStripped(x, y) ==
    LessLimbs(ShiftLimbs(x.m, x.e - MinExp(x, y)),
              ShiftLimbs(y.m, y.e - MinExp(x, y)))

\* x < y for x, y >= 0
F64Less(x, y) ==
    IF y.m = <<>> THEN FALSE
    ELSE IF x.m = <<>> THEN TRUE
    ELSE LessStripped(Stripped(x), Stripped(y))

\* f64::EPSILON, 2^-52
F64Epsilon ==
    [neg |-> FALSE, m |-> ShiftLimbs(<<1>>, F64Digits - 1),
     e |-> 0 - 2 * (F64Digits - 1)]

\* n as f64 for a whole number 0 <= n < 2^31: exact
Whole(n) ==
    IF n = 0 THEN F64Zero
    ELSE [neg |-> FALSE,
          m |-> ShiftLimbs(LimbsOf(n), F64Digits - BitLenOf(n)),
          e |-> BitLenOf(n) - F64Digits]


RegressionItem(sev, scen, step, value, unit) ==
    [severity |-> sev, scenario_name |-> scen, step_text |-> step,
     impact_value |-> value, impact_unit |-> unit]

ImprovementItem(scen, step, value, unit) ==
    [scenario_name |-> scen, step_text |-> step,
     improvement_value |-> value, improvement_unit |-> unit]

\* lines 193-206: the status regression of a matched pair
StatusRegressionsWhenSlower(b, c) ==
    IF b.status = "passed" /\ c.status = "failed" /\ c.duration_ms >= b.duration_ms
    THEN {RegressionItem("critical", Some(b.name), Absent, Whole(1), "count")}
    ELSE {}

StatusRegressions(b, c) ==
    IF b.status = "passed" /\ c.status = "failed"
    THEN {RegressionItem("critical", Some(b.name), Absent, Whole(1), "count")}
    ELSE {}

\* lines 225-250: the duration regression of a matched pair
DurationSeverity(regression_ms, baseline_ms) ==
    IF PercentExceeds(regression_ms, baseline_ms, 50) THEN "high" ELSE "medium"

DurationRegressions(b, c) ==
    IF c.duration_ms > b.duration_ms
       /\ PercentExceeds(c.duration_ms - b.duration_ms, b.duration_ms, 10)
    THEN {RegressionItem(DurationSeverity(c.duration_ms - b.duration_ms, b.duration_ms),
                         Some(b.name), Absent, Whole(c.duration_ms - b.duration_ms),
                         "ms")}
    ELSE {}

\* lines 208-224: the duration improvement of a matched pair
DurationImprovementsOrEqual(b, c) ==
    IF c.duration_ms <= b.duration_ms
    THEN {ImprovementItem(Some(b.name), Absent, Whole(b.duration_ms - c.duration_ms), "ms")}
    ELSE {}

DurationImprovements(b, c) ==
    IF c.duration_ms < b.duration_ms
    THEN {ImprovementItem(Some(b.name), Absent, Whole(b.duration_ms - c.duration_ms), "ms")}
    ELSE {}

\* compare_scenarios, lines 351-373
CompareScenariosDurationFirst(b, c) ==
    [scenario_name |-> b.name,
     previous_status |-> b.status,
     current_status |-> c.status,
     previous_duration_ms |-> b.duration_ms,
     current_duration_ms |-> c.duration_ms,
     change_type |->
        IF c.duration_ms < b.duration_ms THEN "duration_improved"
        ELSE IF c.duration_ms > b.duration_ms THEN "duration_regressed"
        ELSE IF b.status # c.status THEN "status_changed"
        ELSE "unchanged"]

CompareScenarios(b, c) ==
    [scenario_name |-> b.name,
     previous_status |-> b.status,
     current_status |-> c.status,
     previous_duration_ms |-> b.duration_ms,
     current_duration_ms |-> c.duration_ms,
     change_type |->
        IF b.status # c.status THEN "status_changed"
        ELSE IF c.duration_ms < b.duration_ms THEN "duration_improved"
        ELSE IF c.duration_ms > b.duration_ms THEN "duration_regressed"
        ELSE "unchanged"]

\* lines 254-262 and 266-278
RemovedChange(b) ==
    [scenario_name |-> b.name, previous_status |-> b.status,
     current_status |-> "removed", previous_duration_ms |-> b.duration_ms,
     current_duration_ms |-> 0, change_type |-> "removed"]

NewChange(c) ==
    [scenario_name |-> c.name, previous_status |-> "new",
     current_status |-> c.status, previous_duration_ms |-> 0,
     current_duration_ms |-> c.duration_ms, change_type |-> "new"]

MatchedNames(base, cur) == ScenarioNamesOf(base) \cap ScenarioNamesOf(cur)

\* the loops of lines 189-278
ScenarioChanges(base, cur) ==
    {CompareScenarios(LastNamed(base, n), LastNamed(cur, n)) : n \in MatchedNames(base, cur)}
    \cup {RemovedChange(LastNamed(base, n)) :
             n \in ScenarioNamesOf(base) \ ScenarioNamesOf(cur)}
    \cup {NewChange(LastNamed(cur, n)) :
             n \in ScenarioNamesOf(cur) \ ScenarioNamesOf(base)}

ScenarioRegressions(base, cur) ==
    UNION {StatusRegressions(LastNamed(base, n), LastNamed(cur, n))
           \cup DurationRegressions(LastNamed(base, n), LastNamed(cur, n)) :
              n \in MatchedNames(base, cur)}

ScenarioImprovementsWithStatus(base, cur) ==
    UNION {DurationImprovements(LastNamed(base, n), LastNamed(cur, n))
           \cup (IF LastNamed(base, n).status = "failed"
                     /\ LastNamed(cur, n).status = "passed"
                  THEN {ImprovementItem(Some(n), Absent, Whole(1), "count")}
                  ELSE {}) :
              n \in MatchedNames(base, cur)}

ScenarioImprovements(base, cur) ==
    UNION {DurationImprovements(LastNamed(base, n), LastNamed(cur, n)) :
              n \in MatchedNames(base, cur)}

\* analyze_step_performance, lines 385-406: the durations of all steps of a
\* text, over all scenarios of the result
RECURSIVE AllSteps(_)
AllSteps(scs) == IF scs = <<>> THEN <<>> ELSE Head(scs).steps \o AllSteps(Tail(scs))

StepTextsOf(r) ==
    LET all == AllSteps(r.scenarios) IN {all[i].text : i \in 1..Len(all)}

StepTimesFirstOnly(r, t) ==
    LET all == AllSteps(r.scenarios)
        first == CHOOSE i \in 1..Len(all) :
                    all[i].text = t /\ \A j \in 1..(i - 1) : all[j].text # t
    IN  [sum |-> all[first].duration_ms, count |-> 1]

StepTimes(r, t) ==
    LET all == AllSteps(r.scenarios)
        idx == {i \in 1..Len(all) : all[i].text = t}
    IN  [sum |-> SumFn([i \in idx |-> all[i].duration_ms], idx),
         count |-> Cardinality(idx)]

\* lines 411-415: current_avg - baseline_avg and baseline_avg, both scaled by
\* the positive factor baseline count * current count
AvgDiffScaled(bt, ct) == ct.sum * bt.count - bt.sum * ct.count
BaselineAvgScaled(bt, ct) == bt.sum * ct.count

\* ((current_avg - baseline_avg) / baseline_avg) * 100.0, line 414
PercentOf(baseline_avg, current_avg) ==
    F64Mul(F64Div(F64Sub(current_avg, baseline_avg), baseline_avg),
           F64Ratio(100, 1))

\* change_percent of lines 411-414 for a baseline mean above 0; bt and ct
\* are the sum and the count of the durations of the two sides
ChangePercent(bt, ct) ==
    PercentOf(F64Ratio(bt.sum, bt.count), F64Ratio(ct.sum, ct.count))

\* sum as f64 / count as f64 is the mean itself, with no rounding: in lowest
\* terms its denominator is a power of two
MeanIsExact(t) ==
    \E j \in 0..30 : t.count \div Gcd(t.sum, t.count) = 2^j

\* change_percent.abs() > pct, lines 417, 428, 429, 435 and 445, from the
\* sums and counts of the durations of the two sides.  A baseline mean of 0
\* makes the percentage infinite or NaN.  An exact percentage other than pct
\* is further from pct than the rounding of the f64 operations can move it.
\* One equal to pct, for pct of 5, 10 or 50, is left at pct by the
\* operations when both means are held exactly (the quotient is the f64 of
\* pct / 100, its product with 100.0 is pct) and is computed as the code
\* computes it otherwise.
ChangePercentExceeds(bt, ct, pct) ==
    LET delta == Abs(AvgDiffScaled(bt, ct))
        base == BaselineAvgScaled(bt, ct)
    IN  IF base = 0 \/ 100 * delta # pct * base
        THEN PercentExceeds(delta, base, pct)
        ELSE IF MeanIsExact(bt) /\ MeanIsExact(ct) THEN FALSE
        ELSE F64AbsExceeds(ChangePercent(bt, ct), pct)

\* lines 417-426
StepChangesOf(base, cur) ==
    {[step_text |-> t,
      baseline_avg_ms |-> StepTimes(base, t),
      current_avg_ms |-> StepTimes(cur, t),
      is_regression |-> AvgDiffScaled(StepTimes(base, t), StepTimes(cur, t)) > 0,
      occurrence_count |-> StepTimes(cur, t).count] :
        t \in {u \in StepTextsOf(base) \cap StepTextsOf(cur) :
                 ChangePercentExceeds(StepTimes(base, u), StepTimes(cur, u), 5)}}

\* sum as f64 / len as f64, lines 411-413
AvgOf(t) == F64Ratio(t.sum, t.count)

\* current_avg - baseline_avg of a regression (line 442) and
\* baseline_avg - current_avg of an improvement (line 454): the difference
\* of the two rounded means, rounded
AvgDelta(ch) ==
    IF ch.is_regression
    THEN F64Sub(AvgOf(ch.current_avg_ms), AvgOf(ch.baseline_avg_ms))
    ELSE F64Sub(AvgOf(ch.baseline_avg_ms), AvgOf(ch.current_avg_ms))

StepChangeExceeds(ch, pct) ==
    ChangePercentExceeds(ch.baseline_avg_ms, ch.current_avg_ms, pct)

\* lines 428-444
StepRegressions(base, cur) ==
    {RegressionItem(IF StepChangeExceeds(ch, 50) THEN "high" ELSE "medium",
                    Absent, Some(ch.step_text), AvgDelta(ch), "ms") :
        ch \in {x \in StepChangesOf(base, cur) :
                  x.is_regression /\ StepChangeExceeds(x, 10)}}

\* lines 445-457
StepImprovements(base, cur) ==
    {ImprovementItem(Absent, Some(ch.step_text), AvgDelta(ch), "ms") :
        ch \in {x \in StepChangesOf(base, cur) :
                  ~x.is_regression /\ StepChangeExceeds(x, 10)}}

\* lines 284-291
OverallStatusImprovementFirst(regressions, improvements) ==
    IF improvements # {} THEN "improvement"
    ELSE IF regressions # {} THEN "regression"
    ELSE "unchanged"

OverallStatus(regressions, improvements) ==
    IF regressions # {} THEN "regression"
    ELSE IF improvements # {} THEN "improvement"
    ELSE "unchanged"

\* compare_results, lines 167-309 (metrics_diff and the timestamps of the
\* summary are left out: nothing else reads them)
CompareResults(base, cur) ==
    LET regressions == ScenarioRegressions(base, cur) \cup StepRegressions(base, cur)
        improvements == ScenarioImprovements(base, cur) \cup StepImprovements(base, cur)
        changes == ScenarioChanges(base, cur)
        stepChanges == StepChangesOf(base, cur)
    IN  [status |-> OverallStatus(regressions, improvements),
         summary |-> [scenario_changes_count |-> Cardinality(changes),
                      step_changes_count |-> Cardinality(stepChanges),
                      regression_count |-> Cardinality(regressions),
                      improvement_count |-> Cardinality(improvements)],
         scenario_changes |-> changes,
         step_performance_changes |-> stepChanges,
         regressions |-> regressions,
         improvements |-> improvements]


(***************************************************************************)
(* Inputs of compare_results.  Four families of (baseline, current):       *)
(*  - pairs holding at most MaxScenarios scenarios between them;           *)
(*  - a result compared with itself, with repeated names, zero durations   *)
(*    and several steps of the same text;                                  *)
(*  - one scenario of the same name on each side, the current duration     *)
(*    ranging over 0..MaxDuration;                                         *)
(*  - one scenario of the same name, status and duration on each side,     *)
(*    whose steps differ: the duration of a current step ranges over       *)
(*    0..MaxDuration against baseline means of 0, 20 and 100, and against  *)
(*    means of three steps that f64 does not hold exactly.                 *)
(***************************************************************************)
MaxScenarios == 3
MaxSelfScenarios == 2
MaxDuration == 160

ScenarioNames == {"A", "B"}
ScenarioStatuses == {"passed", "failed"}

\* <<duration_ms, steps>> of the scenarios of the first family
PairShapes ==
    {<<100, <<>>>>, <<120, <<>>>>,
     <<100, <<StepOf("s", 10)>>>>, <<100, <<StepOf("s", 30)>>>>}

PairScenarios ==
    {ScenarioOf(n, st, sh[1], sh[2]) :
        n \in ScenarioNames, st \in ScenarioStatuses, sh \in PairShapes}

SelfDurations == {0, 100}

SelfStepLists ==
    {<<>>, <<StepOf("s", 0)>>, <<StepOf("s", 10)>>, <<StepOf("t", 20)>>,
     <<StepOf("s", 10), StepOf("s", 20)>>, <<StepOf("s", 10), StepOf("t", 0)>>}

SelfScenarios ==
    {ScenarioOf(n, st, d, steps) :
        n \in ScenarioNames, st \in ScenarioStatuses, d \in SelfDurations,
        steps \in SelfStepLists}

BaselineDurations == {0, 20, 100}

PairInputs ==
    \E lb \in 0..MaxScenarios : \E lc \in 0..(MaxScenarios - lb) :
        \E b \in [1..lb -> PairScenarios], c \in [1..lc -> PairScenarios] :
            /\ baseline = ResultOf(b)
            /\ current = ResultOf(c)

SelfInputs ==
    \E l \in 0..MaxSelfScenarios : \E x \in [1..l -> SelfScenarios] :
        /\ baseline = ResultOf(x)
        /\ current = ResultOf(x)

DurationInputs ==
    \E bs \in ScenarioStatuses, cs \in ScenarioStatuses,
       bd \in BaselineDurations, cd \in 0..MaxDuration :
        /\ baseline = ResultOf(<<ScenarioOf("A", bs, bd, <<>>)>>)
        /\ current = ResultOf(<<ScenarioOf("A", cs, cd, <<>>)>>)

\* the steps of the baseline scenario of the fourth family: means of 100
\* (one step, and two steps of 80 and 120), 20 and 0, a text the current
\* side does not have, and means of 140/3, 10/3 and 2/3
BaselineStepLists ==
    {<<StepOf("s", 100)>>, <<StepOf("s", 80), StepOf("s", 120)>>,
     <<StepOf("s", 20)>>, <<StepOf("s", 0)>>,
     <<StepOf("s", 100), StepOf("t", 50)>>,
     <<StepOf("s", 46), StepOf("s", 47), StepOf("s", 47)>>,
     <<StepOf("s", 3), StepOf("s", 3), StepOf("s", 4)>>,
     <<StepOf("s", 1), StepOf("s", 1), StepOf("s", 0)>>}

\* the steps of the current scenario: one step of duration d, two steps of
\* mean (d + 100) / 2, and a text the baseline side does not have
CurrentStepLists(d) ==
    {<<StepOf("s", d)>>, <<StepOf("s", d), StepOf("s", 100)>>,
     <<StepOf("s", d), StepOf("u", 10)>>}

StepInputs ==
    \E bsteps \in BaselineStepLists, d \in 0..MaxDuration :
        \E csteps \in CurrentStepLists(d) :
            /\ baseline = ResultOf(<<ScenarioOf("A", "passed", 100, bsteps)>>)
            /\ current = ResultOf(<<ScenarioOf("A", "passed", 100, csteps)>>)

CmpInit ==
    /\ PairInputs \/ SelfInputs \/ DurationInputs \/ StepInputs
    /\ cpc = "ready"
    /\ comparison = None
    \* the batch executor (BatchConfig::default) and the step registry are
    \* not used
    /\ config = [parallel |-> TRUE, max_workers |-> MaxWorkers,
                 continue_on_failure |-> TRUE]
    /\ bpc = "idle"
    /\ paths = <<>>
    /\ total = 0
    /\ completed = 0
    /\ lockHolder = 0
    /\ claimed = {}
    /\ calls = <<>>
    /\ returned = <<>>
    /\ worker = [w \in Workers |-> IdleWorker]
    /\ slots = <<>>
    /\ batch = None
    /\ registry = <<>>
    /\ rpc = "building"
    /\ stepText = <<>>
    /\ matched = None
    \* no result tree is being built
    /\ scenario = None
    /\ result = None
    /\ rop = "none"
    /\ supdates = 0
    /\ rcalls = 0
    \* no performance monitor is in use
    /\ monitor = None
    /\ alertConfig = None
    /\ alerts = <<>>
    /\ mop = "none"
    /\ mrecords = 0
    /\ evals = 0
    /\ now = 0
    \* no feature is being run
    /\ feature = <<>>
    /\ scIdx = 1
    /\ stIdx = 1
    /\ all_passed = TRUE
    /\ executed = <<>>
    /\ reported = <<>>
    /\ runpc = "done"
    \* no step catalog is in use
    /\ catalog = <<>>
    /\ catpc = "building"
    /\ vtext = <<>>
    /\ validated = "none"
    \* no second scenario is being built
    /\ other = None
    /\ oop = "none"

\* compare_results(&baseline, &current): both arguments are shared
\* references, the result is a fresh value.
Compare ==
    /\ cpc = "ready"
    /\ comparison' = CompareResults(baseline, current)
    /\ cpc' = "done"
    /\ UNCHANGED <<baseline, current>>
    /\ UNCHANGED <<batchVars, regVars, resVars, monVars, runVars, catVars, twinVars>>

CmpNext == Compare

SpecCmp == CmpInit /\ [][CmpNext]_vars

(***************************************************************************)
(* Claims about the comparison engine (checked under SpecCmp)              *)
(***************************************************************************)
\* the scenario of index i is the one the comparison sees for its name: no
\* later scenario of the same result has the same name
IsRecorded(r, i) ==
    \A j \in (i + 1)..Len(r.scenarios) : r.scenarios[j].name # r.scenarios[i].name

RecordedPairs ==
    {<<baseline.scenarios[i], current.scenarios[k]>> :
        <<i, k>> \in {p \in (1..Len(baseline.scenarios)) \X (1..Len(current.scenarios)) :
                        /\ IsRecorded(baseline, p[1])
                        /\ IsRecorded(current, p[2])
                        /\ baseline.scenarios[p[1]].name = current.scenarios[p[2]].name}}

\* C6: comparing any result with itself gives status "unchanged", no
\* regressions and no improvements.
C6_CompareSelfUnchanged ==
    (cpc = "done" /\ baseline = current) =>
        /\ comparison.status = "unchanged"
        /\ comparison.regressions = {}
        /\ comparison.improvements = {}

\* a result with a repeated scenario name, a zero duration and two steps of
\* one text, compared with itself
C6_Witness ==
    /\ cpc = "done"
    /\ baseline = current
    /\ Len(baseline.scenarios) = 2
    /\ baseline.scenarios[1].name = baseline.scenarios[2].name
    /\ baseline.scenarios[1].duration_ms = 0
    /\ baseline.scenarios[2].duration_ms = 100
    /\ baseline.scenarios[1].status # baseline.scenarios[2].status
    /\ Len(baseline.scenarios[2].steps) = 2
    /\ baseline.scenarios[1].steps = <<StepOf("s", 0)>>
    /\ comparison.status = "unchanged"

\* C7: the status is "regression" whenever there is a regression item, even
\* if there are improvements too; "improvement" exactly when there is no
\* regression item but an improvement item; "unchanged" exactly when both
\* lists are empty.
C7_StatusPrecedence ==
    cpc = "done" =>
        /\ comparison.regressions # {} => comparison.status = "regression"
        /\ comparison.status = "improvement" <=>
              (comparison.regressions = {} /\ comparison.improvements # {})
        /\ comparison.status = "unchanged" <=>
              (comparison.regressions = {} /\ comparison.improvements = {})

\* both lists are non-empty and the status is "regression"
C7_Witness ==
    /\ cpc = "done"
    /\ comparison.regressions # {}
    /\ comparison.improvements # {}
    /\ comparison.status = "regression"

\* C8: a scenario name present on both sides, "passed" in baseline and
\* "failed" in current, has a regression item of severity "critical" naming
\* it, whatever the durations, and the overall status is "regression".
C8_PassedToFailedCritical ==
    cpc = "done" =>
        \A p \in RecordedPairs :
            (p[1].status = "passed" /\ p[2].status = "failed") =>
                /\ \E it \in comparison.regressions :
                      it.severity = "critical" /\ it.scenario_name = Some(p[1].name)
                /\ comparison.status = "regression"

\* a scenario that went from passed to failed while getting faster
C8_Witness ==
    /\ cpc = "done"
    /\ \E p \in RecordedPairs :
          /\ p[1].status = "passed"
          /\ p[2].status = "failed"
          /\ p[2].duration_ms < p[1].duration_ms
          /\ \E it \in comparison.regressions :
                it.severity = "critical" /\ it.scenario_name = Some(p[1].name)
    /\ comparison.improvements # {}
    /\ comparison.status = "regression"

\* the duration regression items of a scenario
DurationItems(n) ==
    {it \in comparison.regressions :
        it.scenario_name = Some(n) /\ it.impact_unit = "ms"}

\* C9: a scenario's duration increase is listed in regressions exactly when
\* it exceeds 10% of the baseline duration, as "high" when it exceeds 50% and
\* as "medium" otherwise; +51% is high, +11% medium, +5% and +10% give no item.
C9_DurationSeverityBoundary ==
    cpc = "done" =>
        \A p \in RecordedPairs :
            LET b == p[1].duration_ms
                c == p[2].duration_ms
                items == DurationItems(p[1].name)
            IN  /\ c <= b => items = {}
                /\ c > b =>
                     /\ items # {} <=> 10 * (c - b) > b
                     /\ \A it \in items :
                           it.severity = IF 2 * (c - b) > b THEN "high" ELSE "medium"
                /\ (b = 100 /\ c = 151) => \E it \in items : it.severity = "high"
                /\ (b = 100 /\ c = 111) => \E it \in items : it.severity = "medium"
                /\ (b = 100 /\ c \in {105, 110}) => items = {}

\* an increase of exactly 11% is listed as medium
C9_Witness ==
    /\ cpc = "done"
    /\ \E p \in RecordedPairs :
          /\ p[1].duration_ms = 100
          /\ p[2].duration_ms = 111
          /\ p[1].status = p[2].status
          /\ \E it \in DurationItems(p[1].name) : it.severity = "medium"
    /\ comparison.status = "regression"

(***************************************************************************)
(* Step pattern registry                                                   *)
(*                                                                         *)
(* A text is a sequence of characters.  A pattern is a regular expression  *)
(* of the shapes build_step_registry registers: a sequence of literal      *)
(* characters, of capture groups (class+) and of alternations (?:l|r) of   *)
(* two such sequences, matched as Regex::captures does: unanchored,        *)
(* leftmost start first, every group greedy, the left branch of an         *)
(* alternation before the right one.  Captures gives one Option per group: *)
(* Some(text) for a group that took part in the match, Absent for one that *)
(* did not.                                                                *)
(***************************************************************************)
MaxEntries == 3
MaxTextLen == 4

Chars == {"a", "\"", "1"}
Digits == {"1"}
\* the other characters of the step texts and patterns used below
Letters == {" ", "E", "H", "I", "N", "T", "b", "c", "d", "e", "g", "h",
            "i", "k", "l", "n", "o", "p", "r", "s", "t", "v",
            "w", "y"}
NotQuote == (Chars \cup Letters) \ {"\""}

Lit(c) == [kind |-> "lit", ch |-> c]
Group(class) == [kind |-> "group", class |-> class]
Alt(l, r) == [kind |-> "alt", left |-> l, right |-> r]

\* a"([^"]+)"   the shape of  I extract all "([^"]+)"   (lines 531 and 532)
PatQuoted == <<Lit("a"), Lit("\""), Group(NotQuote), Lit("\"")>>
\* a(\d+)       the shape of  I wait (\d+) seconds?
PatDigits == <<Lit("a"), Group(Digits)>>
\* aa           the shape of  I scroll to top
PatLiteral == <<Lit("a"), Lit("a")>>

Patterns == {PatQuoted, PatDigits, PatLiteral}
StepNames == {"A", "B"}

Texts == UNION {[1..n -> Chars] : n \in 0..MaxTextLen}

\* the longest run of characters of class starting at pos
RECURSIVE RunLength(_, _, _)
RunLength(text, pos, class) ==
    IF pos <= Len(text) /\ text[pos] \in class
    THEN 1 + RunLength(text, pos + 1, class)
    ELSE 0

\* the number of capture groups of a pattern
RECURSIVE NumGroups(_)
NumGroups(pat) ==
    IF pat = <<>> THEN 0
    ELSE (CASE Head(pat).kind = "lit" -> 0
            [] Head(pat).kind = "group" -> 1
            [] Head(pat).kind = "alt" ->
                  NumGroups(Head(pat).left) + NumGroups(Head(pat).right))
         + NumGroups(Tail(pat))

\* n groups that took no part in the match
Absents(n) == [i \in 1..n |-> Absent]

\* The match of pat[k..] at position pos that the regex engine prefers:
\* <<caps>> with the Option of every capture group, or <<>> if there is none.
RECURSIVE MatchFrom(_, _, _, _)
RECURSIVE MatchGroup(_, _, _, _, _)
RECURSIVE MatchAlt(_, _, _, _)
MatchFrom(pat, k, text, pos) ==
    IF k > Len(pat) THEN <<(<<>>)>>
    ELSE IF pat[k].kind = "lit"
         THEN IF pos <= Len(text) /\ text[pos] = pat[k].ch
              THEN MatchFrom(pat, k + 1, text, pos + 1)
              ELSE <<>>
    ELSE IF pat[k].kind = "alt"
         THEN MatchAlt(pat, k, text, pos)
         ELSE MatchGroup(pat, k, text, pos, RunLength(text, pos, pat[k].class))

\* the alternation pat[k]: the left branch followed by the rest of the
\* pattern is tried first, then the right branch followed by the rest; the
\* groups of the branch not taken are Absent
MatchAlt(pat, k, text, pos) ==
    LET rest == SubSeq(pat, k + 1, Len(pat))
        nl == NumGroups(pat[k].left)
        nr == NumGroups(pat[k].right)
        viaLeft == MatchFrom(pat[k].left \o rest, 1, text, pos)
        viaRight == MatchFrom(pat[k].right \o rest, 1, text, pos)
    IN  IF viaLeft # <<>>
        THEN <<(SubSeq(viaLeft[1], 1, nl) \o Absents(nr)
                  \o SubSeq(viaLeft[1], nl + 1, Len(viaLeft[1])))>>
        ELSE IF viaRight # <<>>
        THEN <<(Absents(nl) \o viaRight[1])>>
        ELSE <<>>

\* the group pat[k] taking n characters, the greedy choice first
MatchGroup(pat, k, text, pos, n) ==
    IF n < 1 THEN <<>>
    ELSE LET rest == MatchFrom(pat, k + 1, text, pos + n)
         IN  IF rest # <<>>
             THEN <<(<<Some(SubSeq(text, pos, pos + n - 1))>> \o rest[1])>>
             ELSE MatchGroup(pat, k, text, pos, n - 1)

\* Regex::captures(text): the leftmost match, groups 1.. of it
RECURSIVE CapturesFrom(_, _, _)
CapturesFrom(pat, text, pos) ==
    IF pos > Len(text) + 1 THEN <<>>
    ELSE LET here == MatchFrom(pat, 1, text, pos)
         IN  IF here # <<>> THEN here ELSE CapturesFrom(pat, text, pos + 1)

Captures(pat, text) == CapturesFrom(pat, text, 1)

IsMatch(pat, text) == Captures(pat, text) # <<>>

Entry(p, n) == [pattern |-> p, name |-> n]

\* caps.iter().skip(1).filter_map(|c| c.map(|m| m.as_str().to_string())),
\* lines 76-80: the values of the groups that took part, in group order
RECURSIVE ParamsWithPlaceholders(_)
ParamsWithPlaceholders(caps) ==
    IF caps = <<>> THEN <<>>
    ELSE <<(IF Head(caps) = Absent THEN <<>> ELSE Head(caps)[1])>>
            \o ParamsWithPlaceholders(Tail(caps))

RECURSIVE ParamsOf(_)
ParamsOf(caps) ==
    IF caps = <<>> THEN <<>>
    ELSE (IF Head(caps) = Absent THEN <<>> ELSE <<Head(caps)[1]>>)
            \o ParamsOf(Tail(caps))

\* match_step, lines 73-85: the scan of the entries from index k on
RECURSIVE ScanLastMatch(_, _, _)
ScanLastMatch(entries, text, k) ==
    IF k < 1 THEN None
    ELSE LET caps == Captures(entries[k].pattern, text)
         IN  IF caps # <<>>
             THEN [name |-> entries[k].name, params |-> ParamsOf(caps[1])]
             ELSE ScanLastMatch(entries, text, k - 1)

RECURSIVE ScanFrom(_, _, _)
ScanFrom(entries, text, k) ==
    IF k > Len(entries) THEN None
    ELSE LET caps == Captures(entries[k].pattern, text)
         IN  IF caps # <<>>
             THEN [name |-> entries[k].name, params |-> ParamsOf(caps[1])]
             ELSE ScanFrom(entries, text, k + 1)

MatchStepLastWins(entries, text) == ScanLastMatch(entries, text, Len(entries))

MatchStepOf(entries, text) == ScanFrom(entries, text, 1)

\* StepRegistry::new(), lines 62-66
RegInit ==
    /\ registry = <<>>
    /\ rpc = "building"
    /\ stepText = <<>>
    /\ matched = None
    \* the batch executor (BatchConfig::default) and the comparison engine
    \* are not used
    /\ config = [parallel |-> TRUE, max_workers |-> MaxWorkers,
                 continue_on_failure |-> TRUE]
    /\ bpc = "idle"
    /\ paths = <<>>
    /\ total = 0
    /\ completed = 0
    /\ lockHolder = 0
    /\ claimed = {}
    /\ calls = <<>>
    /\ returned = <<>>
    /\ worker = [w \in Workers |-> IdleWorker]
    /\ slots = <<>>
    /\ batch = None
    /\ baseline = None
    /\ current = None
    /\ cpc = "ready"
    /\ comparison = None
    \* no result tree is being built
    /\ scenario = None
    /\ result = None
    /\ rop = "none"
    /\ supdates = 0
    /\ rcalls = 0
    \* no performance monitor is in use
    /\ monitor = None
    /\ alertConfig = None
    /\ alerts = <<>>
    /\ mop = "none"
    /\ mrecords = 0
    /\ evals = 0
    /\ now = 0
    \* no feature is being run
    /\ feature = <<>>
    /\ scIdx = 1
    /\ stIdx = 1
    /\ all_passed = TRUE
    /\ executed = <<>>
    /\ reported = <<>>
    /\ runpc = "done"
    \* no step catalog is in use
    /\ catalog = <<>>
    /\ catpc = "building"
    /\ vtext = <<>>
    /\ validated = "none"
    \* no second scenario is being built
    /\ other = None
    /\ oop = "none"

\* StepRegistry::register, lines 68-71, as called by build_step_registry
Register(p, n) ==
    /\ rpc = "building"
    /\ Len(registry) < MaxEntries
    /\ registry' = Append(registry, Entry(p, n))
    /\ UNCHANGED <<rpc, stepText, matched>>
    /\ UNCHANGED <<batchVars, cmpVars, resVars, monVars, runVars, catVars, twinVars>>

\* build_step_registry returns; main keeps the registry in an immutable
\* binding (line 4533)
BuildReturn ==
    /\ rpc = "building"
    /\ rpc' = "built"
    /\ UNCHANGED <<registry, stepText, matched>>
    /\ UNCHANGED <<batchVars, cmpVars, resVars, monVars, runVars, catVars, twinVars>>

\* StepRegistry::match_step(&self, step_text), lines 73-85: a call reads
\* the registry only, so one call per behaviour shows them all
MatchStep(text) ==
    /\ rpc = "built"
    /\ stepText' = text
    /\ matched' = MatchStepOf(registry, text)
    /\ rpc' = "matched"
    /\ UNCHANGED registry
    /\ UNCHANGED <<batchVars, cmpVars, resVars, monVars, runVars, catVars, twinVars>>

RegNext ==
    \/ \E p \in Patterns, n \in StepNames : Register(p, n)
    \/ BuildReturn
    \/ \E t \in Texts : MatchStep(t)

SpecReg == RegInit /\ [][RegNext]_vars

(***************************************************************************)
(* Registries holding patterns whose capture groups lie in the branches of *)
(* an alternation; register takes any pattern.                             *)
(***************************************************************************)
MaxAltEntries == 2

\* (?:a(\d+)|"(a+))
PatEither == <<Alt(<<Lit("a"), Group(Digits)>>, <<Lit("\""), Group({"a"})>>)>>
\* (a+)(?:(\d+)|("+))
PatGroupThenEither == <<Group({"a"}), Alt(<<Group(Digits)>>, <<Group({"\""})>>)>>
\* (?:(a+)|(\d+))"
PatEitherThenQuote == <<Alt(<<Group({"a"})>>, <<Group(Digits)>>), Lit("\"")>>

AltPatterns == {PatEither, PatGroupThenEither, PatEitherThenQuote, PatDigits}

AltRegistries ==
    UNION {[1..n -> {Entry(p, "A") : p \in AltPatterns}] : n \in 1..MaxAltEntries}

\* the registry build_step_registry would return, had it registered these
AltInit ==
    /\ registry \in AltRegistries
    /\ rpc = "built"
    /\ stepText = <<>>
    /\ matched = None
    \* the batch executor (BatchConfig::default) and the comparison engine
    \* are not used
    /\ config = [parallel |-> TRUE, max_workers |-> MaxWorkers,
                 continue_on_failure |-> TRUE]
    /\ bpc = "idle"
    /\ paths = <<>>
    /\ total = 0
    /\ completed = 0
    /\ lockHolder = 0
    /\ claimed = {}
    /\ calls = <<>>
    /\ returned = <<>>
    /\ worker = [w \in Workers |-> IdleWorker]
    /\ slots = <<>>
    /\ batch = None
    /\ baseline = None
    /\ current = None
    /\ cpc = "ready"
    /\ comparison = None
    \* no result tree is being built
    /\ scenario = None
    /\ result = None
    /\ rop = "none"
    /\ supdates = 0
    /\ rcalls = 0
    \* no performance monitor is in use
    /\ monitor = None
    /\ alertConfig = None
    /\ alerts = <<>>
    /\ mop = "none"
    /\ mrecords = 0
    /\ evals = 0
    /\ now = 0
    \* no feature is being run
    /\ feature = <<>>
    /\ scIdx = 1
    /\ stIdx = 1
    /\ all_passed = TRUE
    /\ executed = <<>>
    /\ reported = <<>>
    /\ runpc = "done"
    \* no step catalog is in use
    /\ catalog = <<>>
    /\ catpc = "building"
    /\ vtext = <<>>
    /\ validated = "none"
    \* no second scenario is being built
    /\ other = None
    /\ oop = "none"

AltNext == \E t \in Texts : MatchStep(t)

SpecAlt == AltInit /\ [][AltNext]_vars

(***************************************************************************)
(* Claims about the step registry (checked under SpecReg)                  *)
(***************************************************************************)
MatchingEntries == {i \in 1..Len(registry) : IsMatch(registry[i].pattern, stepText)}

\* C10: match_step returns the identifier of the earliest-registered entry
\* whose pattern matches the text (and nothing if no entry matches); when
\* one pattern is registered under A first and under B later, a text that
\* satisfies it is answered with A's entry, never with B's.
C10_FirstMatchWins ==
    rpc = "matched" =>
        LET m == MatchingEntries
        IN  /\ m = {} <=> matched = None
            /\ \A i \in m :
                  (\A j \in m : i <= j) => matched.name = registry[i].name
            /\ \A i \in m, j \in m :
                  (/\ i < j
                   /\ registry[i].pattern = registry[j].pattern
                   /\ registry[i].name # registry[j].name
                   /\ \A k \in m : i <= k)
                  => matched.name # registry[j].name

\* the same pattern under A then under B, and a text that satisfies it
C10_Witness ==
    /\ rpc = "matched"
    /\ registry = <<Entry(PatQuoted, "A"), Entry(PatQuoted, "B")>>
    /\ stepText = <<"a", "\"", "1", "\"">>
    /\ matched = [name |-> "A", params |-> <<(<<"1">>)>>]

(***************************************************************************)
(* Claims about the batch executor (checked under SpecBatch)               *)
(***************************************************************************)
PathIdx == 1..Len(paths)
ErrIdx == {i \in PathIdx : returned[i] # None /\ ~returned[i].ok}
OkIdx == {i \in PathIdx : returned[i] # None /\ returned[i].ok}
OthersPassed == \A i \in OkIdx : returned[i].result.status = "passed"

\* C1: when the runner errs on some paths and returns a result of status
\* "passed" for all the others, the batch result has total_features = n,
\* failed_features = errors.len() = number of erring paths and
\* passed_features = n minus that number.
C1_PartialFailureCounts ==
    (bpc = "done" /\ OthersPassed) =>
        /\ batch.total_features = Len(paths)
        /\ batch.failed_features = Cardinality(ErrIdx)
        /\ batch.passed_features = Len(paths) - Cardinality(ErrIdx)
        /\ Len(batch.errors) = Cardinality(ErrIdx)

\* three paths, the runner failing on the second only: 3, 2, 1 and 1
C1_Witness ==
    /\ bpc = "done"
    /\ Len(paths) = 3
    /\ ErrIdx = {2}
    /\ OthersPassed
    /\ batch.total_features = 3
    /\ batch.passed_features = 2
    /\ batch.failed_features = 1
    /\ Len(batch.errors) = 1

\* C2: a runner error never aborts the batch, in either mode and whatever
\* continue_on_failure is: when execute returns the runner has been invoked
\* on every path, and a path whose runner erred adds 0 to the three scenario
\* counts (they are the sums over the paths whose runner succeeded).
C2_ErrorNeverAborts ==
    bpc = "done" =>
        /\ \A i \in PathIdx : calls[i] >= 1 /\ returned[i] # None
        /\ \A i \in ErrIdx : /\ batch.results[i].scenarios_passed = 0
                             /\ batch.results[i].scenarios_failed = 0
        /\ batch.passed_scenarios =
              SumFn([i \in OkIdx |-> returned[i].result.summary.passed_scenarios], OkIdx)
        /\ batch.failed_scenarios =
              SumFn([i \in OkIdx |-> returned[i].result.summary.failed_scenarios], OkIdx)
        /\ batch.total_scenarios =
              SumFn([i \in OkIdx |-> returned[i].result.summary.passed_scenarios
                                     + returned[i].result.summary.failed_scenarios], OkIdx)

\* the first of three paths erred, continue_on_failure is off, and the two
\* later paths were still run and counted
C2_Witness ==
    /\ bpc = "done"
    /\ ~config.continue_on_failure
    /\ Len(paths) = 3
    /\ 1 \in ErrIdx
    /\ {2, 3} \subseteq OkIdx
    /\ calls[2] = 1 /\ calls[3] = 1
    /\ batch.total_scenarios > 0

\* C3: in parallel mode the runner is never invoked twice for a path, and
\* when execute returns it has been invoked exactly once for each path and
\* the results hold exactly one FeatureResult per input path.
C3_ParallelExactlyOnce ==
    (bpc # "idle" /\ IsParallel) =>
        /\ \A i \in PathIdx : calls[i] <= 1
        /\ bpc = "done" =>
              /\ \A i \in PathIdx : calls[i] = 1
              /\ Len(batch.results) = Len(paths)
              /\ \A i \in PathIdx :
                    Cardinality({k \in 1..Len(batch.results) :
                                    batch.results[k].path = paths[i]}) = 1

\* a parallel batch of three paths whose last path was finished first
C3_Witness ==
    /\ bpc = "running"
    /\ IsParallel
    /\ Len(paths) = 3
    /\ slots[3] # None
    /\ slots[1] = None
    /\ worker[1].pc = "called"
    /\ worker[2].pc = "called"

\* the number of increment_completed calls that have returned: one for each
\* FeatureResult collected and one for each thread that has released the
\* mutex and not yet returned its FeatureResult
IncrementsDone ==
    Cardinality({i \in PathIdx : slots[i] # None})
      + Cardinality({w \in Workers : worker[w].pc = "incremented"})

\* C4: completed never exceeds total, no concurrent increment is lost
\* (completed counts every increment_completed call that has returned), and
\* when execute returns completed equals total = paths.len().
C4_ProgressCounter ==
    bpc # "idle" =>
        /\ total = Len(paths)
        /\ completed <= total
        /\ completed = IncrementsDone
        /\ bpc = "done" => completed = total

\* one worker has incremented the counter and released the mutex but not
\* yet returned its FeatureResult; the other holds the mutex and is about to
\* increment
C4_Witness ==
    /\ bpc = "running"
    /\ worker[1].pc = "incremented"
    /\ worker[2].pc = "locked"
    /\ worker[2].tmp = 1
    /\ completed = 1
    /\ \A i \in PathIdx : slots[i] = None

\* C5: the aggregate counts of the BatchResult are sums over its
\* FeatureResult records: passed/failed scenarios are the sums of
\* scenarios_passed/scenarios_failed, total_scenarios is the sum of both (so
\* total = passed + failed), passed/failed features count the records of
\* status "passed"/"failed".
C5_AggregatesAreSums ==
    bpc = "done" =>
        LET rs == batch.results
            idx == 1..Len(rs)
        IN  /\ batch.passed_scenarios = SumFn([k \in idx |-> rs[k].scenarios_passed], idx)
            /\ batch.failed_scenarios = SumFn([k \in idx |-> rs[k].scenarios_failed], idx)
            /\ batch.total_scenarios =
                  SumFn([k \in idx |-> rs[k].scenarios_passed + rs[k].scenarios_failed], idx)
            /\ batch.total_scenarios = batch.passed_scenarios + batch.failed_scenarios
            /\ batch.passed_features = Cardinality({k \in idx : rs[k].status = "passed"})
            /\ batch.failed_features = Cardinality({k \in idx : rs[k].status = "failed"})
            \* and they are fixed by what the runner returned for each path,
            \* whatever the order in which the workers finished
            /\ batch.passed_features =
                  Cardinality({i \in OkIdx : returned[i].result.status = "passed"})
            /\ batch.failed_features =
                  Cardinality(ErrIdx)
                  + Cardinality({i \in OkIdx : returned[i].result.status = "failed"})

\* a finished parallel batch mixing a passed, a failed (with a skipped
\* scenario in its summary) and an erring feature
C5_Witness ==
    /\ bpc = "done"
    /\ IsParallel
    /\ Len(paths) = 3
    /\ ErrIdx # {}
    /\ \E i \in OkIdx : returned[i].result.summary.skipped_scenarios > 0
    /\ \E i \in OkIdx : returned[i].result.status = "passed"
    /\ batch.total_scenarios > 0

(***************************************************************************)
(* Result tree (src/src/execution/result.rs)                               *)
(*                                                                         *)
(* One ScenarioResult and one ExecutionResult are built by the public      *)
(* calls of result.rs, in any order.  add_scenario and add_scenario_result *)
(* take the scenario built so far (by value, by reference).                *)
(***************************************************************************)
MaxCalls == 5

StepStatuses == {"pending", "passed", "failed", "skipped"}

\* StepResult::new(text, keyword), lines 155-164
StepResultNew(t, k) ==
    [text |-> t, keyword |-> k, status |-> "pending", duration_ms |-> 0]

\* StepResult::with_status, lines 166-169
WithStatus(step, st) == [step EXCEPT !.status = st]

\* ScenarioResult::new(name), lines 129-136
ScenarioResultNew(n) ==
    [name |-> n, status |-> "pending", duration_ms |-> 0, steps |-> <<>>]

\* ExecutionSummary::new(), lines 88-99
ExecutionSummaryNew ==
    [total_scenarios |-> 0, passed_scenarios |-> 0, failed_scenarios |-> 0,
     skipped_scenarios |-> 0, total_steps |-> 0, passed_steps |-> 0,
     failed_steps |-> 0, skipped_steps |-> 0]

\* ExecutionResult::new(feature), lines 60-69
ExecutionResultNew ==
    [status |-> "pending", duration_ms |-> 0, scenarios |-> <<>>,
     summary |-> ExecutionSummaryNew]

\* the number of steps of a list that have status st
CountStatus(steps, st) ==
    Cardinality({i \in 1..Len(steps) : steps[i].status = st})

HasStatus(steps, st) == \E i \in 1..Len(steps) : steps[i].status = st

\* ScenarioResult::update_status, lines 142-151: the status it leaves, given
\* the status before the call
ScenarioStatusAnySkipped(old, steps) ==
    IF HasStatus(steps, "failed") THEN "failed"
    ELSE IF HasStatus(steps, "skipped") THEN "skipped"
    ELSE IF HasStatus(steps, "passed") THEN "passed"
    ELSE old

ScenarioStatusEmptyKept(old, steps) ==
    IF HasStatus(steps, "failed") THEN "failed"
    ELSE IF steps # <<>> /\ \A i \in 1..Len(steps) : steps[i].status = "skipped"
         THEN "skipped"
    ELSE IF HasStatus(steps, "passed") THEN "passed"
    ELSE old

ScenarioStatus(old, steps) ==
    IF HasStatus(steps, "failed") THEN "failed"
    ELSE IF \A i \in 1..Len(steps) : steps[i].status = "skipped" THEN "skipped"
    ELSE IF HasStatus(steps, "passed") THEN "passed"
    ELSE old

\* ExecutionResult::update_status, lines 75-84
RunStatus(summary) ==
    IF summary.failed_steps > 0 THEN "failed"
    ELSE IF summary.passed_steps > 0 THEN "passed"
    ELSE "skipped"

\* ExecutionSummary::add_scenario_result, lines 101-119: a status other
\* than the three named ones is counted in the total only
AddScenarioResultOf(summary, sc) ==
    [total_scenarios |-> summary.total_scenarios + 1,
     passed_scenarios |->
        summary.passed_scenarios + (IF sc.status = "passed" THEN 1 ELSE 0),
     failed_scenarios |->
        summary.failed_scenarios + (IF sc.status = "failed" THEN 1 ELSE 0),
     skipped_scenarios |->
        summary.skipped_scenarios + (IF sc.status = "skipped" THEN 1 ELSE 0),
     total_steps |-> summary.total_steps + Len(sc.steps),
     passed_steps |-> summary.passed_steps + CountStatus(sc.steps, "passed"),
     failed_steps |-> summary.failed_steps + CountStatus(sc.steps, "failed"),
     skipped_steps |->
        summary.skipped_steps + CountStatus(sc.steps, "skipped")]

ResInit ==
    /\ scenario = ScenarioResultNew("S")
    /\ result = ExecutionResultNew
    /\ rop = "new"
    /\ supdates = 0
    /\ rcalls = 0
    \* the batch executor (BatchConfig::default), the comparison engine and
    \* the step registry are not used
    /\ config = [parallel |-> TRUE, max_workers |-> MaxWorkers,
                 continue_on_failure |-> TRUE]
    /\ bpc = "idle"
    /\ paths = <<>>
    /\ total = 0
    /\ completed = 0
    /\ lockHolder = 0
    /\ claimed = {}
    /\ calls = <<>>
    /\ returned = <<>>
    /\ worker = [w \in Workers |-> IdleWorker]
    /\ slots = <<>>
    /\ batch = None
    /\ baseline = None
    /\ current = None
    /\ cpc = "ready"
    /\ comparison = None
    /\ registry = <<>>
    /\ rpc = "building"
    /\ stepText = <<>>
    /\ matched = None
    \* no performance monitor is in use
    /\ monitor = None
    /\ alertConfig = None
    /\ alerts = <<>>
    /\ mop = "none"
    /\ mrecords = 0
    /\ evals = 0
    /\ now = 0
    \* no feature is being run
    /\ feature = <<>>
    /\ scIdx = 1
    /\ stIdx = 1
    /\ all_passed = TRUE
    /\ executed = <<>>
    /\ reported = <<>>
    /\ runpc = "done"
    \* no step catalog is in use
    /\ catalog = <<>>
    /\ catpc = "building"
    /\ vtext = <<>>
    /\ validated = "none"
    \* no second scenario is being built
    /\ other = None
    /\ oop = "none"

\* ScenarioResult::new: the next scenario is started
ScenarioNew ==
    /\ rcalls < MaxCalls
    /\ scenario' = ScenarioResultNew("S")
    /\ supdates' = 0
    /\ rop' = "new"
    /\ rcalls' = rcalls + 1
    /\ UNCHANGED result
    /\ UNCHANGED <<batchVars, cmpVars, regVars, monVars, runVars, catVars, twinVars>>

\* ScenarioResult::add_step, lines 138-140, with a step made by
\* StepResult::new(..).with_status(st), or by new alone for "pending"
AddStep(st) ==
    /\ rcalls < MaxCalls
    /\ scenario' =
         [scenario EXCEPT
            !.steps = Append(@, WithStatus(StepResultNew("s", "Given"), st))]
    /\ rop' = "add_step"
    /\ rcalls' = rcalls + 1
    /\ UNCHANGED <<result, supdates>>
    /\ UNCHANGED <<batchVars, cmpVars, regVars, monVars, runVars, catVars, twinVars>>

\* ScenarioResult::update_status, lines 142-151
ScenarioUpdateStatus ==
    /\ rcalls < MaxCalls
    /\ scenario' =
         [scenario EXCEPT !.status = ScenarioStatus(@, scenario.steps)]
    /\ supdates' = supdates + 1
    /\ rop' = "update_status"
    /\ rcalls' = rcalls + 1
    /\ UNCHANGED result
    /\ UNCHANGED <<batchVars, cmpVars, regVars, monVars, runVars, catVars, twinVars>>

\* ExecutionResult::add_scenario, lines 71-73
AddScenario ==
    /\ rcalls < MaxCalls
    /\ result' = [result EXCEPT !.scenarios = Append(@, scenario)]
    /\ rop' = "add_scenario"
    /\ rcalls' = rcalls + 1
    /\ UNCHANGED <<scenario, supdates>>
    /\ UNCHANGED <<batchVars, cmpVars, regVars, monVars, runVars, catVars, twinVars>>

\* result.summary.add_scenario_result(&scenario), lines 101-119
AddScenarioResult ==
    /\ rcalls < MaxCalls
    /\ result' =
         [result EXCEPT !.summary = AddScenarioResultOf(@, scenario)]
    /\ rop' = "add_scenario_result"
    /\ rcalls' = rcalls + 1
    /\ UNCHANGED <<scenario, supdates>>
    /\ UNCHANGED <<batchVars, cmpVars, regVars, monVars, runVars, catVars, twinVars>>

\* ExecutionResult::update_status, lines 75-84
ResultUpdateStatus ==
    /\ rcalls < MaxCalls
    /\ result' = [result EXCEPT !.status = RunStatus(result.summary)]
    /\ rop' = "result_update_status"
    /\ rcalls' = rcalls + 1
    /\ UNCHANGED <<scenario, supdates>>
    /\ UNCHANGED <<batchVars, cmpVars, regVars, monVars, runVars, catVars, twinVars>>

ResNext ==
    \/ ScenarioNew
    \/ \E st \in StepStatuses : AddStep(st)
    \/ ScenarioUpdateStatus
    \/ AddScenario
    \/ AddScenarioResult
    \/ ResultUpdateStatus

SpecRes == ResInit /\ [][ResNext]_vars

(***************************************************************************)
(* Two ScenarioResults built side by side by add_step and update_status    *)
(* calls, each with its own history.                                       *)
(***************************************************************************)
TwinInit ==
    /\ scenario = ScenarioResultNew("S")
    /\ other = ScenarioResultNew("T")
    /\ rop = "new"
    /\ oop = "new"
    /\ supdates = 0
    /\ rcalls = 0
    /\ result = None
    \* the batch executor (BatchConfig::default), the comparison engine and
    \* the step registry are not used
    /\ config = [parallel |-> TRUE, max_workers |-> MaxWorkers,
                 continue_on_failure |-> TRUE]
    /\ bpc = "idle"
    /\ paths = <<>>
    /\ total = 0
    /\ completed = 0
    /\ lockHolder = 0
    /\ claimed = {}
    /\ calls = <<>>
    /\ returned = <<>>
    /\ worker = [w \in Workers |-> IdleWorker]
    /\ slots = <<>>
    /\ batch = None
    /\ baseline = None
    /\ current = None
    /\ cpc = "ready"
    /\ comparison = None
    /\ registry = <<>>
    /\ rpc = "building"
    /\ stepText = <<>>
    /\ matched = None
    \* no performance monitor is in use
    /\ monitor = None
    /\ alertConfig = None
    /\ alerts = <<>>
    /\ mop = "none"
    /\ mrecords = 0
    /\ evals = 0
    /\ now = 0
    \* no feature is being run
    /\ feature = <<>>
    /\ scIdx = 1
    /\ stIdx = 1
    /\ all_passed = TRUE
    /\ executed = <<>>
    /\ reported = <<>>
    /\ runpc = "done"
    \* no step catalog is in use
    /\ catalog = <<>>
    /\ catpc = "building"
    /\ vtext = <<>>
    /\ validated = "none"

\* ScenarioResult::add_step on the second scenario, lines 138-140
OtherAddStep(st) ==
    /\ rcalls < MaxCalls
    /\ other' =
         [other EXCEPT
            !.steps = Append(@, WithStatus(StepResultNew("s", "Given"), st))]
    /\ oop' = "add_step"
    /\ rcalls' = rcalls + 1
    /\ UNCHANGED <<scenario, result, rop, supdates>>
    /\ UNCHANGED <<batchVars, cmpVars, regVars, monVars, runVars, catVars>>

\* ScenarioResult::update_status on the second scenario, lines 142-151
OtherUpdateStatus ==
    /\ rcalls < MaxCalls
    /\ other' = [other EXCEPT !.status = ScenarioStatus(@, other.steps)]
    /\ oop' = "update_status"
    /\ rcalls' = rcalls + 1
    /\ UNCHANGED <<scenario, result, rop, supdates>>
    /\ UNCHANGED <<batchVars, cmpVars, regVars, monVars, runVars, catVars>>

TwinNext ==
    \/ \E st \in StepStatuses : AddStep(st)
    \/ ScenarioUpdateStatus
    \/ \E st \in StepStatuses : OtherAddStep(st)
    \/ OtherUpdateStatus

SpecTwin == TwinInit /\ [][TwinNext]_vars

(***************************************************************************)
(* Claims on the result tree                                               *)
(***************************************************************************)

\* C11: for every ExecutionResult built from new() by add_step,
\* add_scenario and summary.add_scenario_result calls, with steps and
\* scenarios of any status, total_scenarios = passed + failed + skipped
\* scenarios and total_steps = passed + failed + skipped steps.
C11_SummaryIdentity ==
    LET sm == result.summary
    IN  /\ sm.total_scenarios =
              sm.passed_scenarios + sm.failed_scenarios + sm.skipped_scenarios
        /\ sm.total_steps =
              sm.passed_steps + sm.failed_steps + sm.skipped_steps

\* C12: after update_status on a scenario built from new() by add_step
\* calls, the status is "failed" if any step is failed, otherwise "skipped"
\* if all steps are skipped, otherwise "passed" if any step is passed,
\* otherwise it is still "pending".
C12_ScenarioStatusDerived ==
    (rop = "update_status" /\ supdates = 1) =>
        LET n == Len(scenario.steps)
            f == CountStatus(scenario.steps, "failed")
            k == CountStatus(scenario.steps, "skipped")
            p == CountStatus(scenario.steps, "passed")
        IN  scenario.status =
              IF f > 0 THEN "failed"
              ELSE IF k = n THEN "skipped"
              ELSE IF p > 0 THEN "passed"
              ELSE "pending"

\* a first update_status on steps passed and skipped, none failed
C12_Witness ==
    /\ rop = "update_status"
    /\ supdates = 1
    /\ HasStatus(scenario.steps, "passed")
    /\ HasStatus(scenario.steps, "skipped")
    /\ ~HasStatus(scenario.steps, "failed")
    /\ scenario.status = "passed"

(***************************************************************************)
(* Performance monitor and alert thresholds (src/src/execution/alerts.rs)  *)
(*                                                                         *)
(* Durations are whole milliseconds.  A metric value is the f64 the code   *)
(* computes.  A custom metric's key is the sequence of its chars.           *)
(* The monotonic clock (Instant) is read in nanoseconds since              *)
(* PerformanceMonitor::new(); the readings of an evaluation are inputs of  *)
(* it, none earlier than the one before.                                   *)
(***************************************************************************)
MaxMonCalls == 3

Metric(kind) == [kind |-> kind, key |-> <<>>]
CustomMetric(k) == [kind |-> "Custom", key |-> k]

Threshold(n, m, op, v, sev) ==
    [name |-> n, metric |-> m, operator |-> op, value |-> v, severity |-> sev]

\* AlertConfig::default(), lines 15-57
AlertConfigDefault ==
    [name |-> "default", enabled |-> TRUE,
     thresholds |->
       << Threshold("slow_scenario", Metric("ScenarioDurationMs"),
                    "GreaterThan", 30000, "Warning"),
          Threshold("very_slow_scenario", Metric("ScenarioDurationMs"),
                    "GreaterThan", 60000, "Critical"),
          Threshold("slow_step", Metric("StepDurationMs"),
                    "GreaterThan", 10000, "Warning"),
          Threshold("high_failure_rate", Metric("FailureRatePercent"),
                    "GreaterThan", 10, "Warning") >>]

\* PerformanceMonitor::new(), lines 140-152
PerformanceMonitorNew ==
    [scenario_durations |-> <<>>, step_durations |-> <<>>, step_count |-> 0,
     scenario_count |-> 0, failed_scenarios |-> 0, skipped_scenarios |-> 0,
     custom_metrics |-> {}, alerts |-> <<>>]

\* record_scenario, lines 154-170
RecordScenarioOf(mon, sc) ==
    [mon EXCEPT
       !.scenario_count = @ + 1,
       !.scenario_durations = Append(@, sc.duration_ms),
       !.failed_scenarios = IF sc.status = "failed" THEN @ + 1 ELSE @,
       !.skipped_scenarios =
           IF sc.status # "failed" /\ sc.status = "skipped" THEN @ + 1 ELSE @,
       !.step_count = @ + Len(sc.steps),
       !.step_durations =
           @ \o [i \in 1..Len(sc.steps) |-> sc.steps[i].duration_ms]]

\* record_step, lines 172-176
RecordStepUncounted(mon, step) ==
    [mon EXCEPT !.step_durations = Append(@, step.duration_ms)]

RecordStepOf(mon, step) ==
    [mon EXCEPT !.step_count = @ + 1,
                !.step_durations = Append(@, step.duration_ms)]

\* set_metric, lines 178-180: HashMap::insert replaces the value of the key
SetMetricOf(mon, k, v) ==
    [mon EXCEPT
       !.custom_metrics = {kv \in @ : kv[1] # k} \cup {<<k, v>>}]

\* the mean of a list of durations, 0.0 for the empty list: the sum's
\* as_millis() as f64 / len() as f64, lines 228-233 and 236-241
MeanOf(durations) ==
    IF durations = <<>> THEN Whole(0)
    ELSE F64Ratio(SumSeq(durations), Len(durations))

NanosPerMilli == 1000 * 1000
NanosPerSec == 1000 * NanosPerMilli

\* Duration::as_millis: whole milliseconds, the rest cut off
AsMillis(nanos) == nanos \div NanosPerMilli

\* Duration::as_secs_f64: secs as f64 + nanos as f64 / 1e9, secs the whole
\* seconds and nanos the rest
AsSecsF64(nanos) ==
    F64Add(Whole(nanos \div NanosPerSec),
           F64Ratio(nanos % NanosPerSec, NanosPerSec))

\* lines 253-257 and 261-265: count as f64 / elapsed_sec, 0.0 when
\* elapsed_sec is 0.0
PerSecond(count, elapsed_sec) ==
    IF elapsed_sec = F64Zero THEN F64Zero
    ELSE F64Div(Whole(count), elapsed_sec)

\* get_metric_value, lines 225-270; elapsed is start_time.elapsed() in
\* nanoseconds
GetMetricValue(mon, metric, elapsed) ==
    CASE metric.kind = "ScenarioDurationMs" -> MeanOf(mon.scenario_durations)
      [] metric.kind = "StepDurationMs" -> MeanOf(mon.step_durations)
      [] metric.kind = "FailureRatePercent" ->
            IF mon.scenario_count = 0 THEN Whole(0)
            ELSE F64Mul(F64Ratio(mon.failed_scenarios, mon.scenario_count),
                        Whole(100))
      [] metric.kind = "TotalDurationMs" -> Whole(AsMillis(elapsed))
      [] metric.kind = "ScenariosPerSecond" ->
            PerSecond(mon.scenario_count, AsSecsF64(elapsed))
      [] metric.kind = "StepsPerSecond" ->
            PerSecond(mon.step_count, AsSecsF64(elapsed))
      [] metric.kind = "MemoryUsageMb" -> Whole(0)
      [] metric.kind = "Custom" ->
            IF \E kv \in mon.custom_metrics : kv[1] = metric.key
            THEN Whole((CHOOSE kv \in mon.custom_metrics :
                           kv[1] = metric.key)[2])
            ELSE Whole(0)

\* (value - threshold.value).abs() < f64::EPSILON, lines 220-221
WithinEpsilon(value, limit) ==
    F64Less(F64Abs(F64Sub(value, limit)), F64Epsilon)

\* the match on threshold.operator, lines 217-222: the f64 value against
\* the f64 limit, both at or above 0
CompareOpSwapped(op, value, limit) ==
    CASE op = "GreaterThan" -> F64Less(value, limit)
      [] op = "LessThan" -> F64Less(limit, value)
      [] op = "EqualTo" -> WithinEpsilon(value, limit)
      [] op = "NotEqualTo" -> ~WithinEpsilon(value, limit)

CompareOp(op, value, limit) ==
    CASE op = "GreaterThan" -> F64Less(limit, value)
      [] op = "LessThan" -> F64Less(value, limit)
      [] op = "EqualTo" -> WithinEpsilon(value, limit)
      [] op = "NotEqualTo" -> ~WithinEpsilon(value, limit)

\* evaluate_threshold, lines 214-223
EvaluateThreshold(mon, th, elapsed) ==
    CompareOp(th.operator, GetMetricValue(mon, th.metric, elapsed),
              Whole(th.value))

\* A String is the sequence of its chars and a char is its Unicode scalar
\* value: the key "m" is <<109>>.
\*
\* char::is_grapheme_extended and the printable test of char::escape_debug
\* (standard library, reached from the format!("{:?}") of line 199), as
\* ranges of scalar values, both ends included; the tables are those of
\* Unicode 17.0
GraphemeExtendRanges ==
    <<<<768, 879>>, <<1155, 1161>>, <<1425, 1469>>, <<1471, 1471>>,
      <<1473, 1474>>, <<1476, 1477>>, <<1479, 1479>>, <<1552, 1562>>,
      <<1611, 1631>>, <<1648, 1648>>, <<1750, 1756>>, <<1759, 1764>>,
      <<1767, 1768>>, <<1770, 1773>>, <<1809, 1809>>, <<1840, 1866>>,
      <<1958, 1968>>, <<2027, 2035>>, <<2045, 2045>>, <<2070, 2073>>,
      <<2075, 2083>>, <<2085, 2087>>, <<2089, 2093>>, <<2137, 2139>>,
      <<2199, 2207>>, <<2250, 2273>>, <<2275, 2306>>, <<2362, 2362>>,
      <<2364, 2364>>, <<2369, 2376>>, <<2381, 2381>>, <<2385, 2391>>,
      <<2402, 2403>>, <<2433, 2433>>, <<2492, 2492>>, <<2494, 2494>>,
      <<2497, 2500>>, <<2509, 2509>>, <<2519, 2519>>, <<2530, 2531>>,
      <<2558, 2558>>, <<2561, 2562>>, <<2620, 2620>>, <<2625, 2626>>,
      <<2631, 2632>>, <<2635, 2637>>, <<2641, 2641>>, <<2672, 2673>>,
      <<2677, 2677>>, <<2689, 2690>>, <<2748, 2748>>, <<2753, 2757>>,
      <<2759, 2760>>, <<2765, 2765>>, <<2786, 2787>>, <<2810, 2815>>,
      <<2817, 2817>>, <<2876, 2876>>, <<2878, 2879>>, <<2881, 2884>>,
      <<2893, 2893>>, <<2901, 2903>>, <<2914, 2915>>, <<2946, 2946>>,
      <<3006, 3006>>, <<3008, 3008>>, <<3021, 3021>>, <<3031, 3031>>,
      <<3072, 3072>>, <<3076, 3076>>, <<3132, 3132>>, <<3134, 3136>>,
      <<3142, 3144>>, <<3146, 3149>>, <<3157, 3158>>, <<3170, 3171>>,
      <<3201, 3201>>, <<3260, 3260>>, <<3263, 3264>>, <<3266, 3266>>,
      <<3270, 3272>>, <<3274, 3277>>, <<3285, 3286>>, <<3298, 3299>>,
      <<3328, 3329>>, <<3387, 3388>>, <<3390, 3390>>, <<3393, 3396>>,
      <<3405, 3405>>, <<3415, 3415>>, <<3426, 3427>>, <<3457, 3457>>,
      <<3530, 3530>>, <<3535, 3535>>, <<3538, 3540>>, <<3542, 3542>>,
      <<3551, 3551>>, <<3633, 3633>>, <<3636, 3642>>, <<3655, 3662>>,
      <<3761, 3761>>, <<3764, 3772>>, <<3784, 3790>>, <<3864, 3865>>,
      <<3893, 3893>>, <<3895, 3895>>, <<3897, 3897>>, <<3953, 3966>>,
      <<3968, 3972>>, <<3974, 3975>>, <<3981, 3991>>, <<3993, 4028>>,
      <<4038, 4038>>, <<4141, 4144>>, <<4146, 4151>>, <<4153, 4154>>,
      <<4157, 4158>>, <<4184, 4185>>, <<4190, 4192>>, <<4209, 4212>>,
      <<4226, 4226>>, <<4229, 4230>>, <<4237, 4237>>, <<4253, 4253>>,
      <<4957, 4959>>, <<5906, 5909>>, <<5938, 5940>>, <<5970, 5971>>,
      <<6002, 6003>>, <<6068, 6069>>, <<6071, 6077>>, <<6086, 6086>>,
      <<6089, 6099>>, <<6109, 6109>>, <<6155, 6157>>, <<6159, 6159>>,
      <<6277, 6278>>, <<6313, 6313>>, <<6432, 6434>>, <<6439, 6440>>,
      <<6450, 6450>>, <<6457, 6459>>, <<6679, 6680>>, <<6683, 6683>>,
      <<6742, 6742>>, <<6744, 6750>>, <<6752, 6752>>, <<6754, 6754>>,
      <<6757, 6764>>, <<6771, 6780>>, <<6783, 6783>>, <<6832, 6877>>,
      <<6880, 6891>>, <<6912, 6915>>, <<6964, 6973>>, <<6978, 6980>>,
      <<7019, 7027>>, <<7040, 7041>>, <<7074, 7077>>, <<7080, 7085>>,
      <<7142, 7142>>, <<7144, 7145>>, <<7149, 7149>>, <<7151, 7155>>,
      <<7212, 7219>>, <<7222, 7223>>, <<7376, 7378>>, <<7380, 7392>>,
      <<7394, 7400>>, <<7405, 7405>>, <<7412, 7412>>, <<7416, 7417>>,
      <<7616, 7679>>, <<8204, 8204>>, <<8400, 8432>>, <<11503, 11505>>,
      <<11647, 11647>>, <<11744, 11775>>, <<12330, 12335>>, <<12441, 12442>>,
      <<42607, 42610>>, <<42612, 42621>>, <<42654, 42655>>, <<42736, 42737>>,
      <<43010, 43010>>, <<43014, 43014>>, <<43019, 43019>>, <<43045, 43046>>,
      <<43052, 43052>>, <<43204, 43205>>, <<43232, 43249>>, <<43263, 43263>>,
      <<43302, 43309>>, <<43335, 43345>>, <<43347, 43347>>, <<43392, 43394>>,
      <<43443, 43443>>, <<43446, 43449>>, <<43452, 43453>>, <<43456, 43456>>,
      <<43493, 43493>>, <<43561, 43566>>, <<43569, 43570>>, <<43573, 43574>>,
      <<43587, 43587>>, <<43596, 43596>>, <<43644, 43644>>, <<43696, 43696>>,
      <<43698, 43700>>, <<43703, 43704>>, <<43710, 43711>>, <<43713, 43713>>,
      <<43756, 43757>>, <<43766, 43766>>, <<44005, 44005>>, <<44008, 44008>>,
      <<44013, 44013>>, <<64286, 64286>>, <<65024, 65039>>, <<65056, 65071>>,
      <<65438, 65439>>, <<66045, 66045>>, <<66272, 66272>>, <<66422, 66426>>,
      <<68097, 68099>>, <<68101, 68102>>, <<68108, 68111>>, <<68152, 68154>>,
      <<68159, 68159>>, <<68325, 68326>>, <<68900, 68903>>, <<68969, 68973>>,
      <<69291, 69292>>, <<69370, 69375>>, <<69446, 69456>>, <<69506, 69509>>,
      <<69633, 69633>>, <<69688, 69702>>, <<69744, 69744>>, <<69747, 69748>>,
      <<69759, 69761>>, <<69811, 69814>>, <<69817, 69818>>, <<69826, 69826>>,
      <<69888, 69890>>, <<69927, 69931>>, <<69933, 69940>>, <<70003, 70003>>,
      <<70016, 70017>>, <<70070, 70078>>, <<70080, 70080>>, <<70089, 70092>>,
      <<70095, 70095>>, <<70191, 70193>>, <<70196, 70199>>, <<70206, 70206>>,
      <<70209, 70209>>, <<70367, 70367>>, <<70371, 70378>>, <<70400, 70401>>,
      <<70459, 70460>>, <<70462, 70462>>, <<70464, 70464>>, <<70477, 70477>>,
      <<70487, 70487>>, <<70502, 70508>>, <<70512, 70516>>, <<70584, 70584>>,
      <<70587, 70592>>, <<70594, 70594>>, <<70597, 70597>>, <<70599, 70601>>,
      <<70606, 70608>>, <<70610, 70610>>, <<70625, 70626>>, <<70712, 70719>>,
      <<70722, 70724>>, <<70726, 70726>>, <<70750, 70750>>, <<70832, 70832>>,
      <<70835, 70840>>, <<70842, 70842>>, <<70845, 70845>>, <<70847, 70848>>,
      <<70850, 70851>>, <<71087, 71087>>, <<71090, 71093>>, <<71100, 71101>>,
      <<71103, 71104>>, <<71132, 71133>>, <<71219, 71226>>, <<71229, 71229>>,
      <<71231, 71232>>, <<71339, 71339>>, <<71341, 71341>>, <<71344, 71351>>,
      <<71453, 71453>>, <<71455, 71455>>, <<71458, 71461>>, <<71463, 71467>>,
      <<71727, 71735>>, <<71737, 71738>>, <<71984, 71984>>, <<71995, 71998>>,
      <<72003, 72003>>, <<72148, 72151>>, <<72154, 72155>>, <<72160, 72160>>,
      <<72193, 72202>>, <<72243, 72248>>, <<72251, 72254>>, <<72263, 72263>>,
      <<72273, 72278>>, <<72281, 72283>>, <<72330, 72342>>, <<72344, 72345>>,
      <<72544, 72544>>, <<72546, 72548>>, <<72550, 72550>>, <<72752, 72758>>,
      <<72760, 72765>>, <<72767, 72767>>, <<72850, 72871>>, <<72874, 72880>>,
      <<72882, 72883>>, <<72885, 72886>>, <<73009, 73014>>, <<73018, 73018>>,
      <<73020, 73021>>, <<73023, 73029>>, <<73031, 73031>>, <<73104, 73105>>,
      <<73109, 73109>>, <<73111, 73111>>, <<73459, 73460>>, <<73472, 73473>>,
      <<73526, 73530>>, <<73536, 73538>>, <<73562, 73562>>, <<78912, 78912>>,
      <<78919, 78933>>, <<90398, 90409>>, <<90413, 90415>>, <<92912, 92916>>,
      <<92976, 92982>>, <<94031, 94031>>, <<94095, 94098>>, <<94180, 94180>>,
      <<94192, 94193>>, <<113821, 113822>>, <<118528, 118573>>,
      <<118576, 118598>>, <<119141, 119145>>, <<119149, 119154>>,
      <<119163, 119170>>, <<119173, 119179>>, <<119210, 119213>>,
      <<119362, 119364>>, <<121344, 121398>>, <<121403, 121452>>,
      <<121461, 121461>>, <<121476, 121476>>, <<121499, 121503>>,
      <<121505, 121519>>, <<122880, 122886>>, <<122888, 122904>>,
      <<122907, 122913>>, <<122915, 122916>>, <<122918, 122922>>,
      <<123023, 123023>>, <<123184, 123190>>, <<123566, 123566>>,
      <<123628, 123631>>, <<124140, 124143>>, <<124398, 124399>>,
      <<124643, 124643>>, <<124646, 124646>>, <<124654, 124655>>,
      <<124661, 124661>>, <<125136, 125142>>, <<125252, 125258>>,
      <<917536, 917631>>, <<917760, 917999>>>>

\* the chars of the categories Cc, Cf, Cs, Co, Cn, Zl, Zp and Zs, the space
\* (32) left out
NotPrintableRanges ==
    <<<<0, 31>>, <<127, 160>>, <<173, 173>>, <<888, 889>>, <<896, 899>>,
      <<907, 907>>, <<909, 909>>, <<930, 930>>, <<1328, 1328>>,
      <<1367, 1368>>, <<1419, 1420>>, <<1424, 1424>>, <<1480, 1487>>,
      <<1515, 1518>>, <<1525, 1541>>, <<1564, 1564>>, <<1757, 1757>>,
      <<1806, 1807>>, <<1867, 1868>>, <<1970, 1983>>, <<2043, 2044>>,
      <<2094, 2095>>, <<2111, 2111>>, <<2140, 2141>>, <<2143, 2143>>,
      <<2155, 2159>>, <<2192, 2198>>, <<2274, 2274>>, <<2436, 2436>>,
      <<2445, 2446>>, <<2449, 2450>>, <<2473, 2473>>, <<2481, 2481>>,
      <<2483, 2485>>, <<2490, 2491>>, <<2501, 2502>>, <<2505, 2506>>,
      <<2511, 2518>>, <<2520, 2523>>, <<2526, 2526>>, <<2532, 2533>>,
      <<2559, 2560>>, <<2564, 2564>>, <<2571, 2574>>, <<2577, 2578>>,
      <<2601, 2601>>, <<2609, 2609>>, <<2612, 2612>>, <<2615, 2615>>,
      <<2618, 2619>>, <<2621, 2621>>, <<2627, 2630>>, <<2633, 2634>>,
      <<2638, 2640>>, <<2642, 2648>>, <<2653, 2653>>, <<2655, 2661>>,
      <<2679, 2688>>, <<2692, 2692>>, <<2702, 2702>>, <<2706, 2706>>,
      <<2729, 2729>>, <<2737, 2737>>, <<2740, 2740>>, <<2746, 2747>>,
      <<2758, 2758>>, <<2762, 2762>>, <<2766, 2767>>, <<2769, 2783>>,
      <<2788, 2789>>, <<2802, 2808>>, <<2816, 2816>>, <<2820, 2820>>,
      <<2829, 2830>>, <<2833, 2834>>, <<2857, 2857>>, <<2865, 2865>>,
      <<2868, 2868>>, <<2874, 2875>>, <<2885, 2886>>, <<2889, 2890>>,
      <<2894, 2900>>, <<2904, 2907>>, <<2910, 2910>>, <<2916, 2917>>,
      <<2936, 2945>>, <<2948, 2948>>, <<2955, 2957>>, <<2961, 2961>>,
      <<2966, 2968>>, <<2971, 2971>>, <<2973, 2973>>, <<2976, 2978>>,
      <<2981, 2983>>, <<2987, 2989>>, <<3002, 3005>>, <<3011, 3013>>,
      <<3017, 3017>>, <<3022, 3023>>, <<3025, 3030>>, <<3032, 3045>>,
      <<3067, 3071>>, <<3085, 3085>>, <<3089, 3089>>, <<3113, 3113>>,
      <<3130, 3131>>, <<3141, 3141>>, <<3145, 3145>>, <<3150, 3156>>,
      <<3159, 3159>>, <<3163, 3163>>, <<3166, 3167>>, <<3172, 3173>>,
      <<3184, 3190>>, <<3213, 3213>>, <<3217, 3217>>, <<3241, 3241>>,
      <<3252, 3252>>, <<3258, 3259>>, <<3269, 3269>>, <<3273, 3273>>,
      <<3278, 3284>>, <<3287, 3291>>, <<3295, 3295>>, <<3300, 3301>>,
      <<3312, 3312>>, <<3316, 3327>>, <<3341, 3341>>, <<3345, 3345>>,
      <<3397, 3397>>, <<3401, 3401>>, <<3408, 3411>>, <<3428, 3429>>,
      <<3456, 3456>>, <<3460, 3460>>, <<3479, 3481>>, <<3506, 3506>>,
      <<3516, 3516>>, <<3518, 3519>>, <<3527, 3529>>, <<3531, 3534>>,
      <<3541, 3541>>, <<3543, 3543>>, <<3552, 3557>>, <<3568, 3569>>,
      <<3573, 3584>>, <<3643, 3646>>, <<3676, 3712>>, <<3715, 3715>>,
      <<3717, 3717>>, <<3723, 3723>>, <<3748, 3748>>, <<3750, 3750>>,
      <<3774, 3775>>, <<3781, 3781>>, <<3783, 3783>>, <<3791, 3791>>,
      <<3802, 3803>>, <<3808, 3839>>, <<3912, 3912>>, <<3949, 3952>>,
      <<3992, 3992>>, <<4029, 4029>>, <<4045, 4045>>, <<4059, 4095>>,
      <<4294, 4294>>, <<4296, 4300>>, <<4302, 4303>>, <<4681, 4681>>,
      <<4686, 4687>>, <<4695, 4695>>, <<4697, 4697>>, <<4702, 4703>>,
      <<4745, 4745>>, <<4750, 4751>>, <<4785, 4785>>, <<4790, 4791>>,
      <<4799, 4799>>, <<4801, 4801>>, <<4806, 4807>>, <<4823, 4823>>,
      <<4881, 4881>>, <<4886, 4887>>, <<4955, 4956>>, <<4989, 4991>>,
      <<5018, 5023>>, <<5110, 5111>>, <<5118, 5119>>, <<5760, 5760>>,
      <<5789, 5791>>, <<5881, 5887>>, <<5910, 5918>>, <<5943, 5951>>,
      <<5972, 5983>>, <<5997, 5997>>, <<6001, 6001>>, <<6004, 6015>>,
      <<6110, 6111>>, <<6122, 6127>>, <<6138, 6143>>, <<6158, 6158>>,
      <<6170, 6175>>, <<6265, 6271>>, <<6315, 6319>>, <<6390, 6399>>,
      <<6431, 6431>>, <<6444, 6447>>, <<6460, 6463>>, <<6465, 6467>>,
      <<6510, 6511>>, <<6517, 6527>>, <<6572, 6575>>, <<6602, 6607>>,
      <<6619, 6621>>, <<6684, 6685>>, <<6751, 6751>>, <<6781, 6782>>,
      <<6794, 6799>>, <<6810, 6815>>, <<6830, 6831>>, <<6878, 6879>>,
      <<6892, 6911>>, <<6989, 6989>>, <<7156, 7163>>, <<7224, 7226>>,
      <<7242, 7244>>, <<7307, 7311>>, <<7355, 7356>>, <<7368, 7375>>,
      <<7419, 7423>>, <<7958, 7959>>, <<7966, 7967>>, <<8006, 8007>>,
      <<8014, 8015>>, <<8024, 8024>>, <<8026, 8026>>, <<8028, 8028>>,
      <<8030, 8030>>, <<8062, 8063>>, <<8117, 8117>>, <<8133, 8133>>,
      <<8148, 8149>>, <<8156, 8156>>, <<8176, 8177>>, <<8181, 8181>>,
      <<8191, 8207>>, <<8232, 8239>>, <<8287, 8303>>, <<8306, 8307>>,
      <<8335, 8335>>, <<8349, 8351>>, <<8386, 8399>>, <<8433, 8447>>,
      <<8588, 8591>>, <<9258, 9279>>, <<9291, 9311>>, <<11124, 11125>>,
      <<11508, 11512>>, <<11558, 11558>>, <<11560, 11564>>, <<11566, 11567>>,
      <<11624, 11630>>, <<11633, 11646>>, <<11671, 11679>>, <<11687, 11687>>,
      <<11695, 11695>>, <<11703, 11703>>, <<11711, 11711>>, <<11719, 11719>>,
      <<11727, 11727>>, <<11735, 11735>>, <<11743, 11743>>, <<11870, 11903>>,
      <<11930, 11930>>, <<12020, 12031>>, <<12246, 12271>>, <<12288, 12288>>,
      <<12352, 12352>>, <<12439, 12440>>, <<12544, 12548>>, <<12592, 12592>>,
      <<12687, 12687>>, <<12774, 12782>>, <<12831, 12831>>, <<42125, 42127>>,
      <<42183, 42191>>, <<42540, 42559>>, <<42744, 42751>>, <<42973, 42992>>,
      <<43053, 43055>>, <<43066, 43071>>, <<43128, 43135>>, <<43206, 43213>>,
      <<43226, 43231>>, <<43348, 43358>>, <<43389, 43391>>, <<43470, 43470>>,
      <<43482, 43485>>, <<43519, 43519>>, <<43575, 43583>>, <<43598, 43599>>,
      <<43610, 43611>>, <<43715, 43738>>, <<43767, 43776>>, <<43783, 43784>>,
      <<43791, 43792>>, <<43799, 43807>>, <<43815, 43815>>, <<43823, 43823>>,
      <<43884, 43887>>, <<44014, 44015>>, <<44026, 44031>>, <<55204, 55215>>,
      <<55239, 55242>>, <<55292, 63743>>, <<64110, 64111>>, <<64218, 64255>>,
      <<64263, 64274>>, <<64280, 64284>>, <<64311, 64311>>, <<64317, 64317>>,
      <<64319, 64319>>, <<64322, 64322>>, <<64325, 64325>>, <<64976, 65007>>,
      <<65050, 65055>>, <<65107, 65107>>, <<65127, 65127>>, <<65132, 65135>>,
      <<65141, 65141>>, <<65277, 65280>>, <<65471, 65473>>, <<65480, 65481>>,
      <<65488, 65489>>, <<65496, 65497>>, <<65501, 65503>>, <<65511, 65511>>,
      <<65519, 65531>>, <<65534, 65535>>, <<65548, 65548>>, <<65575, 65575>>,
      <<65595, 65595>>, <<65598, 65598>>, <<65614, 65615>>, <<65630, 65663>>,
      <<65787, 65791>>, <<65795, 65798>>, <<65844, 65846>>, <<65935, 65935>>,
      <<65949, 65951>>, <<65953, 65999>>, <<66046, 66175>>, <<66205, 66207>>,
      <<66257, 66271>>, <<66300, 66303>>, <<66340, 66348>>, <<66379, 66383>>,
      <<66427, 66431>>, <<66462, 66462>>, <<66500, 66503>>, <<66518, 66559>>,
      <<66718, 66719>>, <<66730, 66735>>, <<66772, 66775>>, <<66812, 66815>>,
      <<66856, 66863>>, <<66916, 66926>>, <<66939, 66939>>, <<66955, 66955>>,
      <<66963, 66963>>, <<66966, 66966>>, <<66978, 66978>>, <<66994, 66994>>,
      <<67002, 67002>>, <<67005, 67007>>, <<67060, 67071>>, <<67383, 67391>>,
      <<67414, 67423>>, <<67432, 67455>>, <<67462, 67462>>, <<67505, 67505>>,
      <<67515, 67583>>, <<67590, 67591>>, <<67593, 67593>>, <<67638, 67638>>,
      <<67641, 67643>>, <<67645, 67646>>, <<67670, 67670>>, <<67743, 67750>>,
      <<67760, 67807>>, <<67827, 67827>>, <<67830, 67834>>, <<67868, 67870>>,
      <<67898, 67902>>, <<67930, 67967>>, <<68024, 68027>>, <<68048, 68049>>,
      <<68100, 68100>>, <<68103, 68107>>, <<68116, 68116>>, <<68120, 68120>>,
      <<68150, 68151>>, <<68155, 68158>>, <<68169, 68175>>, <<68185, 68191>>,
      <<68256, 68287>>, <<68327, 68330>>, <<68343, 68351>>, <<68406, 68408>>,
      <<68438, 68439>>, <<68467, 68471>>, <<68498, 68504>>, <<68509, 68520>>,
      <<68528, 68607>>, <<68681, 68735>>, <<68787, 68799>>, <<68851, 68857>>,
      <<68904, 68911>>, <<68922, 68927>>, <<68966, 68968>>, <<68998, 69005>>,
      <<69008, 69215>>, <<69247, 69247>>, <<69290, 69290>>, <<69294, 69295>>,
      <<69298, 69313>>, <<69320, 69327>>, <<69337, 69369>>, <<69416, 69423>>,
      <<69466, 69487>>, <<69514, 69551>>, <<69580, 69599>>, <<69623, 69631>>,
      <<69710, 69713>>, <<69750, 69758>>, <<69821, 69821>>, <<69827, 69839>>,
      <<69865, 69871>>, <<69882, 69887>>, <<69941, 69941>>, <<69960, 69967>>,
      <<70007, 70015>>, <<70112, 70112>>, <<70133, 70143>>, <<70162, 70162>>,
      <<70210, 70271>>, <<70279, 70279>>, <<70281, 70281>>, <<70286, 70286>>,
      <<70302, 70302>>, <<70314, 70319>>, <<70379, 70383>>, <<70394, 70399>>,
      <<70404, 70404>>, <<70413, 70414>>, <<70417, 70418>>, <<70441, 70441>>,
      <<70449, 70449>>, <<70452, 70452>>, <<70458, 70458>>, <<70469, 70470>>,
      <<70473, 70474>>, <<70478, 70479>>, <<70481, 70486>>, <<70488, 70492>>,
      <<70500, 70501>>, <<70509, 70511>>, <<70517, 70527>>, <<70538, 70538>>,
      <<70540, 70541>>, <<70543, 70543>>, <<70582, 70582>>, <<70593, 70593>>,
      <<70595, 70596>>, <<70598, 70598>>, <<70603, 70603>>, <<70614, 70614>>,
      <<70617, 70624>>, <<70627, 70655>>, <<70748, 70748>>, <<70754, 70783>>,
      <<70856, 70863>>, <<70874, 71039>>, <<71094, 71095>>, <<71134, 71167>>,
      <<71237, 71247>>, <<71258, 71263>>, <<71277, 71295>>, <<71354, 71359>>,
      <<71370, 71375>>, <<71396, 71423>>, <<71451, 71452>>, <<71468, 71471>>,
      <<71495, 71679>>, <<71740, 71839>>, <<71923, 71934>>, <<71943, 71944>>,
      <<71946, 71947>>, <<71956, 71956>>, <<71959, 71959>>, <<71990, 71990>>,
      <<71993, 71994>>, <<72007, 72015>>, <<72026, 72095>>, <<72104, 72105>>,
      <<72152, 72153>>, <<72165, 72191>>, <<72264, 72271>>, <<72355, 72367>>,
      <<72441, 72447>>, <<72458, 72543>>, <<72552, 72639>>, <<72674, 72687>>,
      <<72698, 72703>>, <<72713, 72713>>, <<72759, 72759>>, <<72774, 72783>>,
      <<72813, 72815>>, <<72848, 72849>>, <<72872, 72872>>, <<72887, 72959>>,
      <<72967, 72967>>, <<72970, 72970>>, <<73015, 73017>>, <<73019, 73019>>,
      <<73022, 73022>>, <<73032, 73039>>, <<73050, 73055>>, <<73062, 73062>>,
      <<73065, 73065>>, <<73103, 73103>>, <<73106, 73106>>, <<73113, 73119>>,
      <<73130, 73135>>, <<73180, 73183>>, <<73194, 73439>>, <<73465, 73471>>,
      <<73489, 73489>>, <<73531, 73533>>, <<73563, 73647>>, <<73649, 73663>>,
      <<73714, 73726>>, <<74650, 74751>>, <<74863, 74863>>, <<74869, 74879>>,
      <<75076, 77711>>, <<77811, 77823>>, <<78896, 78911>>, <<78934, 78943>>,
      <<82939, 82943>>, <<83527, 90367>>, <<90426, 92159>>, <<92729, 92735>>,
      <<92767, 92767>>, <<92778, 92781>>, <<92863, 92863>>, <<92874, 92879>>,
      <<92910, 92911>>, <<92918, 92927>>, <<92998, 93007>>, <<93018, 93018>>,
      <<93026, 93026>>, <<93048, 93052>>, <<93072, 93503>>, <<93562, 93759>>,
      <<93851, 93855>>, <<93881, 93882>>, <<93908, 93951>>, <<94027, 94030>>,
      <<94088, 94094>>, <<94112, 94175>>, <<94181, 94191>>, <<94199, 94207>>,
      <<101590, 101630>>, <<101663, 101759>>, <<101875, 110575>>,
      <<110580, 110580>>, <<110588, 110588>>, <<110591, 110591>>,
      <<110883, 110897>>, <<110899, 110927>>, <<110931, 110932>>,
      <<110934, 110947>>, <<110952, 110959>>, <<111356, 113663>>,
      <<113771, 113775>>, <<113789, 113791>>, <<113801, 113807>>,
      <<113818, 113819>>, <<113824, 117759>>, <<118013, 118015>>,
      <<118452, 118457>>, <<118481, 118495>>, <<118513, 118527>>,
      <<118574, 118575>>, <<118599, 118607>>, <<118724, 118783>>,
      <<119030, 119039>>, <<119079, 119080>>, <<119155, 119162>>,
      <<119275, 119295>>, <<119366, 119487>>, <<119508, 119519>>,
      <<119540, 119551>>, <<119639, 119647>>, <<119673, 119807>>,
      <<119893, 119893>>, <<119965, 119965>>, <<119968, 119969>>,
      <<119971, 119972>>, <<119975, 119976>>, <<119981, 119981>>,
      <<119994, 119994>>, <<119996, 119996>>, <<120004, 120004>>,
      <<120070, 120070>>, <<120075, 120076>>, <<120085, 120085>>,
      <<120093, 120093>>, <<120122, 120122>>, <<120127, 120127>>,
      <<120133, 120133>>, <<120135, 120137>>, <<120145, 120145>>,
      <<120486, 120487>>, <<120780, 120781>>, <<121484, 121498>>,
      <<121504, 121504>>, <<121520, 122623>>, <<122655, 122660>>,
      <<122667, 122879>>, <<122887, 122887>>, <<122905, 122906>>,
      <<122914, 122914>>, <<122917, 122917>>, <<122923, 122927>>,
      <<122990, 123022>>, <<123024, 123135>>, <<123181, 123183>>,
      <<123198, 123199>>, <<123210, 123213>>, <<123216, 123535>>,
      <<123567, 123583>>, <<123642, 123646>>, <<123648, 124111>>,
      <<124154, 124367>>, <<124411, 124414>>, <<124416, 124607>>,
      <<124639, 124639>>, <<124662, 124669>>, <<124672, 124895>>,
      <<124903, 124903>>, <<124908, 124908>>, <<124911, 124911>>,
      <<124927, 124927>>, <<125125, 125126>>, <<125143, 125183>>,
      <<125260, 125263>>, <<125274, 125277>>, <<125280, 126064>>,
      <<126133, 126208>>, <<126270, 126463>>, <<126468, 126468>>,
      <<126496, 126496>>, <<126499, 126499>>, <<126501, 126502>>,
      <<126504, 126504>>, <<126515, 126515>>, <<126520, 126520>>,
      <<126522, 126522>>, <<126524, 126529>>, <<126531, 126534>>,
      <<126536, 126536>>, <<126538, 126538>>, <<126540, 126540>>,
      <<126544, 126544>>, <<126547, 126547>>, <<126549, 126550>>,
      <<126552, 126552>>, <<126554, 126554>>, <<126556, 126556>>,
      <<126558, 126558>>, <<126560, 126560>>, <<126563, 126563>>,
      <<126565, 126566>>, <<126571, 126571>>, <<126579, 126579>>,
      <<126584, 126584>>, <<126589, 126589>>, <<126591, 126591>>,
      <<126602, 126602>>, <<126620, 126624>>, <<126628, 126628>>,
      <<126634, 126634>>, <<126652, 126703>>, <<126706, 126975>>,
      <<127020, 127023>>, <<127124, 127135>>, <<127151, 127152>>,
      <<127168, 127168>>, <<127184, 127184>>, <<127222, 127231>>,
      <<127406, 127461>>, <<127491, 127503>>, <<127548, 127551>>,
      <<127561, 127567>>, <<127570, 127583>>, <<127590, 127743>>,
      <<128729, 128731>>, <<128749, 128751>>, <<128765, 128767>>,
      <<128986, 128991>>, <<129004, 129007>>, <<129009, 129023>>,
      <<129036, 129039>>, <<129096, 129103>>, <<129114, 129119>>,
      <<129160, 129167>>, <<129198, 129199>>, <<129212, 129215>>,
      <<129218, 129231>>, <<129241, 129279>>, <<129624, 129631>>,
      <<129646, 129647>>, <<129661, 129663>>, <<129675, 129677>>,
      <<129735, 129735>>, <<129737, 129740>>, <<129757, 129758>>,
      <<129771, 129774>>, <<129785, 129791>>, <<129939, 129939>>,
      <<130043, 131071>>, <<173792, 173823>>, <<178206, 178207>>,
      <<183982, 183983>>, <<191457, 191471>>, <<192094, 194559>>,
      <<195102, 196607>>, <<201547, 201551>>, <<210042, 917759>>,
      <<918000, 1114111>>>>

InRanges(c, ranges) ==
    \E i \in 1..Len(ranges) : ranges[i][1] <= c /\ c <= ranges[i][2]

IsGraphemeExtended(c) == c >= 768 /\ InRanges(c, GraphemeExtendRanges)

IsPrintable(c) ==
    IF c < 32 THEN FALSE
    ELSE IF c < 127 THEN TRUE
    ELSE ~InRanges(c, NotPrintableRanges)

\* the digits of n in base 16, lower case, without leading zeros
HexDigit(d) == IF d < 10 THEN 48 + d ELSE 87 + d

RECURSIVE HexOf(_)
HexOf(n) ==
    IF n < 16 THEN <<HexDigit(n)>>
    ELSE Append(HexOf(n \div 16), HexDigit(n % 16))

\* char::escape_unicode: \u{..} with the scalar value in base 16
EscapeUnicode(c) == <<92, 117, 123>> \o HexOf(c) \o <<125>>

\* char::escape_debug as the Debug of a str applies it: NUL, tab, carriage
\* return and line feed are written \0, \t, \r and \n, a backslash and a
\* double quote get a backslash before them, a single quote stays; of the
\* other chars the grapheme extenders and the ones that are not printable
\* are written \u{..} and the printable ones stay
EscapeDebug(c) ==
    CASE c = 0 -> <<92, 48>>
      [] c = 9 -> <<92, 116>>
      [] c = 13 -> <<92, 114>>
      [] c = 10 -> <<92, 110>>
      [] c = 92 -> <<92, 92>>
      [] c = 34 -> <<92, 34>>
      [] OTHER ->
            IF IsGraphemeExtended(c) THEN EscapeUnicode(c)
            ELSE IF IsPrintable(c) THEN <<c>>
            ELSE EscapeUnicode(c)

\* the Debug of a String without its quotes
RECURSIVE DebugChars(_)
DebugChars(chars) ==
    IF chars = <<>> THEN <<>>
    ELSE EscapeDebug(Head(chars)) \o DebugChars(Tail(chars))

\* the names of the unit variants of AlertMetric, lines 70-77, as chars
VariantName(kind) ==
    CASE kind = "ScenarioDurationMs" ->
            <<83, 99, 101, 110, 97, 114, 105, 111, 68, 117, 114, 97, 116, 105,
              111, 110, 77, 115>>
      [] kind = "StepDurationMs" ->
            <<83, 116, 101, 112, 68, 117, 114, 97, 116, 105, 111, 110, 77,
              115>>
      [] kind = "FailureRatePercent" ->
            <<70, 97, 105, 108, 117, 114, 101, 82, 97, 116, 101, 80, 101, 114,
              99, 101, 110, 116>>
      [] kind = "TotalDurationMs" ->
            <<84, 111, 116, 97, 108, 68, 117, 114, 97, 116, 105, 111, 110, 77,
              115>>
      [] kind = "ScenariosPerSecond" ->
            <<83, 99, 101, 110, 97, 114, 105, 111, 115, 80, 101, 114, 83, 101,
              99, 111, 110, 100>>
      [] kind = "StepsPerSecond" ->
            <<83, 116, 101, 112, 115, 80, 101, 114, 83, 101, 99, 111, 110,
              100>>
      [] kind = "MemoryUsageMb" ->
            <<77, 101, 109, 111, 114, 121, 85, 115, 97, 103, 101, 77, 98>>

\* format!("{:?}", threshold.metric), line 199: the derived Debug of
\* AlertMetric; a unit variant is written as its name and the custom one as
\* Custom { key: "..." }
DebugMetric(metric) ==
    IF metric.kind = "Custom"
    THEN <<67, 117, 115, 116, 111, 109, 32, 123, 32, 107, 101, 121, 58, 32,
           34>>
            \o DebugChars(metric.key) \o <<34, 32, 125>>
    ELSE VariantName(metric.kind)

\* the PerformanceAlert built at lines 193-204 (timestamp left out);
\* elapsed is the clock reading of line 200
AlertOf(mon, th, elapsed) ==
    [severity |-> th.severity, threshold_name |-> th.name,
     metric |-> DebugMetric(th.metric),
     value |-> GetMetricValue(mon, th.metric, elapsed),
     threshold_value |-> Whole(th.value)]

\* the arms of get_metric_value that read the clock, lines 250, 252, 260
ReadsClock(metric) ==
    metric.kind \in {"TotalDurationMs", "ScenariosPerSecond", "StepsPerSecond"}

\* the loop over config.thresholds, lines 188-209; clocks holds two clock
\* readings for each threshold whose metric reads the clock, the one of
\* the test (line 190) and the one of the alert's value (line 200)
RECURSIVE ThresholdAlerts(_, _, _)
ThresholdAlerts(mon, ths, clocks) ==
    IF ths = <<>> THEN <<>>
    ELSE LET th == Head(ths)
             timed == ReadsClock(th.metric)
             tested == IF timed THEN clocks[1] ELSE 0
             valued == IF timed THEN clocks[2] ELSE 0
             rest == IF timed THEN Tail(Tail(clocks)) ELSE clocks
         IN  (IF EvaluateThreshold(mon, th, tested)
              THEN <<AlertOf(mon, th, valued)>>
              ELSE <<>>) \o ThresholdAlerts(mon, Tail(ths), rest)

\* evaluate_thresholds, lines 182-212: the list it returns
EvaluateIgnoringEnabled(mon, cfg, clocks) ==
    ThresholdAlerts(mon, cfg.thresholds, clocks)

EvaluateThresholdsOf(mon, cfg, clocks) ==
    IF ~cfg.enabled THEN <<>>
    ELSE ThresholdAlerts(mon, cfg.thresholds, clocks)

\* inputs: the scenarios and steps recorded, the custom metrics set, the
\* configs evaluated and the clock readings of an evaluation
\* scenarios of 45,000 ms of every status, and passed ones of 5,000 and
\* of 70,000 ms (record_scenario reads the status and the duration apart)
MonScenarios ==
    {ScenarioOf("S", sd[1], sd[2], steps) :
        sd \in ({"passed", "failed", "skipped"} \X {45000})
                  \cup {<<"passed", 5000>>, <<"passed", 70000>>},
        steps \in {<<>>, <<StepOf("s", 20000)>>}}

MonSteps == {StepOf("s", d) : d \in {2000, 20000}}

\* the key of the custom metric: m, a double quote and a form feed
MonKey == <<109, 34, 12>>

ThresholdPool ==
    { Threshold("quick_scenario", Metric("ScenarioDurationMs"),
                "LessThan", 30000, "Info"),
      Threshold("long_run", Metric("TotalDurationMs"),
                "GreaterThan", 500, "Critical"),
      Threshold("just_started", Metric("TotalDurationMs"),
                "LessThan", 2, "Info"),
      Threshold("one_per_second", Metric("ScenariosPerSecond"),
                "EqualTo", 1, "Info"),
      Threshold("steps_flowing", Metric("StepsPerSecond"),
                "NotEqualTo", 0, "Warning"),
      Threshold("no_memory", Metric("MemoryUsageMb"),
                "EqualTo", 0, "Info"),
      Threshold("custom_high", CustomMetric(MonKey),
                "GreaterThan", 3, "Critical") }

\* the clock readings: 0, 500 microseconds and 1 second after new()
ElapsedValues == {0, NanosPerMilli \div 2, NanosPerSec}

\* n readings taken one after the other, the first not before time from
RECURSIVE ClockReadings(_, _)
ClockReadings(n, from) ==
    IF n = 0 THEN {<<>>}
    ELSE UNION {{<<e>> \o rest : rest \in ClockReadings(n - 1, e)} :
                   e \in {v \in ElapsedValues : v >= from}}

\* the readings of one call of evaluate_thresholds: none when the config
\* is disabled (line 183)
ReadingsFor(cfg, from) ==
    ClockReadings(
        IF cfg.enabled
        THEN 2 * Cardinality({i \in 1..Len(cfg.thresholds) :
                                 ReadsClock(cfg.thresholds[i].metric)})
        ELSE 0, from)

LastReading(clocks, from) ==
    IF clocks = <<>> THEN from ELSE clocks[Len(clocks)]

AlertConfigs ==
    {[AlertConfigDefault EXCEPT !.enabled = en] : en \in BOOLEAN} \cup
    {[name |-> "custom", enabled |-> en, thresholds |-> <<th>>] :
        en \in BOOLEAN, th \in ThresholdPool}

MonInit ==
    /\ monitor = PerformanceMonitorNew
    /\ alertConfig = None
    /\ alerts = <<>>
    /\ mop = "new"
    /\ mrecords = 0
    /\ evals = 0
    /\ now = 0
    \* the batch executor (BatchConfig::default), the comparison engine,
    \* the step registry and the result tree are not used
    /\ config = [parallel |-> TRUE, max_workers |-> MaxWorkers,
                 continue_on_failure |-> TRUE]
    /\ bpc = "idle"
    /\ paths = <<>>
    /\ total = 0
    /\ completed = 0
    /\ lockHolder = 0
    /\ claimed = {}
    /\ calls = <<>>
    /\ returned = <<>>
    /\ worker = [w \in Workers |-> IdleWorker]
    /\ slots = <<>>
    /\ batch = None
    /\ baseline = None
    /\ current = None
    /\ cpc = "ready"
    /\ comparison = None
    /\ registry = <<>>
    /\ rpc = "building"
    /\ stepText = <<>>
    /\ matched = None
    /\ scenario = None
    /\ result = None
    /\ rop = "none"
    /\ supdates = 0
    /\ rcalls = 0
    \* no feature is being run
    /\ feature = <<>>
    /\ scIdx = 1
    /\ stIdx = 1
    /\ all_passed = TRUE
    /\ executed = <<>>
    /\ reported = <<>>
    /\ runpc = "done"
    \* no step catalog is in use
    /\ catalog = <<>>
    /\ catpc = "building"
    /\ vtext = <<>>
    /\ validated = "none"
    \* no second scenario is being built
    /\ other = None
    /\ oop = "none"

\* PerformanceMonitor::record_scenario(&scenario), lines 154-170
RecordScenario(sc) ==
    /\ mrecords + evals < MaxMonCalls
    /\ monitor' = RecordScenarioOf(monitor, sc)
    /\ mop' = "record_scenario"
    /\ mrecords' = mrecords + 1
    /\ UNCHANGED <<alertConfig, alerts, evals, now>>
    /\ UNCHANGED <<batchVars, cmpVars, regVars, resVars, runVars, catVars, twinVars>>

\* PerformanceMonitor::record_step(&step), lines 172-176
RecordStep(step) ==
    /\ mrecords + evals < MaxMonCalls
    /\ monitor' = RecordStepOf(monitor, step)
    /\ mop' = "record_step"
    /\ mrecords' = mrecords + 1
    /\ UNCHANGED <<alertConfig, alerts, evals, now>>
    /\ UNCHANGED <<batchVars, cmpVars, regVars, resVars, runVars, catVars, twinVars>>

\* PerformanceMonitor::set_metric(key, value), lines 178-180
SetMetric(k, v) ==
    /\ mrecords + evals < MaxMonCalls
    /\ monitor' = SetMetricOf(monitor, k, v)
    /\ mop' = "set_metric"
    /\ mrecords' = mrecords + 1
    /\ UNCHANGED <<alertConfig, alerts, evals, now>>
    /\ UNCHANGED <<batchVars, cmpVars, regVars, resVars, runVars, catVars, twinVars>>

\* PerformanceMonitor::evaluate_thresholds(&config), lines 182-212: every
\* alert returned is also pushed to self.alerts
EvaluateThresholdsDraining(cfg, clocks) ==
    /\ mrecords + evals < MaxMonCalls
    /\ LET fired == EvaluateThresholdsOf(monitor, cfg, clocks)
       IN  /\ alerts' = fired
           /\ monitor' = [monitor EXCEPT !.alerts = @ \o fired,
                                         !.scenario_durations = <<>>,
                                         !.step_durations = <<>>]
    /\ alertConfig' = cfg
    /\ mop' = "evaluate_thresholds"
    /\ evals' = evals + 1
    /\ now' = LastReading(clocks, now)
    /\ UNCHANGED mrecords
    /\ UNCHANGED <<batchVars, cmpVars, regVars, resVars, runVars, catVars, twinVars>>

EvaluateThresholds(cfg, clocks) ==
    /\ mrecords + evals < MaxMonCalls
    /\ LET fired == EvaluateThresholdsOf(monitor, cfg, clocks)
       IN  /\ alerts' = fired
           /\ monitor' = [monitor EXCEPT !.alerts = @ \o fired]
    /\ alertConfig' = cfg
    /\ mop' = "evaluate_thresholds"
    /\ evals' = evals + 1
    /\ now' = LastReading(clocks, now)
    /\ UNCHANGED mrecords
    /\ UNCHANGED <<batchVars, cmpVars, regVars, resVars, runVars, catVars, twinVars>>

MonNext ==
    \/ \E sc \in MonScenarios : RecordScenario(sc)
    \/ \E st \in MonSteps : RecordStep(st)
    \/ \E k \in {MonKey}, v \in {0, 5} : SetMetric(k, v)
    \/ \E cfg \in AlertConfigs :
          \E clocks \in ReadingsFor(cfg, now) : EvaluateThresholds(cfg, clocks)

SpecMon == MonInit /\ [][MonNext]_vars

(***************************************************************************)
(* Claims on the performance monitor                                       *)
(***************************************************************************)
AlertsNamed(as, n) == {i \in 1..Len(as) : as[i].threshold_name = n}

AlertsOfSeverity(as, sev) == {i \in 1..Len(as) : as[i].severity = sev}

\* C13: a monitor that has recorded exactly one scenario, of 45,000 ms and
\* of any status, evaluated against the default ruleset returns exactly
\* one alert for slow_scenario, of severity warning, and no critical alert.
C13_SlowScenarioWarning ==
    (/\ mop = "evaluate_thresholds"
     /\ alertConfig = AlertConfigDefault
     /\ monitor.scenario_count = 1
     /\ monitor.scenario_durations = <<45000>>) =>
        /\ Cardinality(AlertsNamed(alerts, "slow_scenario")) = 1
        /\ \A i \in AlertsNamed(alerts, "slow_scenario") :
              alerts[i].severity = "Warning"
        /\ AlertsOfSeverity(alerts, "Critical") = {}

\* the default ruleset evaluated on one failed scenario of 45,000 ms
C13_Witness ==
    /\ mop = "evaluate_thresholds"
    /\ alertConfig = AlertConfigDefault
    /\ monitor.scenario_count = 1
    /\ monitor.scenario_durations = <<45000>>
    /\ monitor.failed_scenarios = 1
    /\ Cardinality(AlertsNamed(alerts, "slow_scenario")) = 1

\* C14: evaluate_thresholds with a config whose enabled flag is false
\* returns an empty list, whatever the monitor has recorded and whatever
\* thresholds the config holds, and adds nothing to the monitor's stored
\* alerts.
C14_DisabledConfigNoAlerts ==
    [][(evals' # evals /\ ~alertConfig'.enabled) =>
          (alerts' = <<>> /\ monitor'.alerts = monitor.alerts)]_vars

\* a disabled default ruleset evaluated on a monitor whose one scenario
\* would fire slow_scenario
C14_Witness ==
    /\ mop = "evaluate_thresholds"
    /\ ~alertConfig.enabled
    /\ alertConfig.thresholds = AlertConfigDefault.thresholds
    /\ monitor.scenario_durations = <<45000>>
    /\ EvaluateThreshold(monitor, alertConfig.thresholds[1], 0)
    /\ alerts = <<>>

(***************************************************************************)
(* The runner's main loop (src/examples/gherkin_runner.rs, main)           *)
(*                                                                         *)
(* A feature is a list of scenarios, a scenario a list of step texts.  The *)
(* registry is the one build_step_registry returned; what execute_step     *)
(* returns for a matched step depends on the browser and is an input.      *)
(***************************************************************************)
MaxRunScenarios == 2
MaxFeatureSteps == 3

\* "a browser is available", line 4557
BrowserAvailable ==
    <<"a", " ", "b", "r", "o", "w", "s", "e", "r", " ", "i", "s", " ",
      "a", "v", "a", "i", "l", "a", "b", "l", "e">>

\* "a browser backend is available", line 4558
BrowserBackendAvailable ==
    <<"a", " ", "b", "r", "o", "w", "s", "e", "r", " ", "b", "a", "c", "k",
      "e", "n", "d", " ", "i", "s", " ",
      "a", "v", "a", "i", "l", "a", "b", "l", "e">>

\* step texts: one a pattern matches, one no pattern matches, and the two
\* texts main knows by name
RunTexts == {<<"a", "a">>, <<"1">>, BrowserAvailable, BrowserBackendAvailable}

RunnerRegistries ==
    { <<Entry(PatLiteral, "A"), Entry(PatQuoted, "B")>>,
      <<Entry(PatDigits, "B")>> }

\* the scenarios of at most b steps
RunScenarios(b) == UNION {[1..n -> RunTexts] : n \in 0..b}

\* the features of n scenarios that hold at most b steps in all
RECURSIVE FeaturesOf(_, _)
FeaturesOf(n, b) ==
    IF n = 0 THEN {<<>>}
    ELSE UNION {{<<sc>> \o f : f \in FeaturesOf(n - 1, b - Len(sc))} :
                   sc \in RunScenarios(b)}

Features == UNION {FeaturesOf(n, MaxFeatureSteps) : n \in 0..MaxRunScenarios}

\* lines 4552-4565: the Result of one step; ok is what execute_step
\* returns when the text matches an entry
StepResultOf(reg, text, ok) ==
    IF MatchStepOf(reg, text) # None THEN ok
    ELSE IF text = BrowserAvailable \/ text = BrowserBackendAvailable
         THEN TRUE
         ELSE FALSE

\* lines 4567-4580: where the inner loop goes after a step
AfterStepContinue(ok) == "steps"

AfterStep(ok) == IF ok THEN "steps" ELSE "report"

RunInit ==
    /\ feature \in Features
    /\ registry \in RunnerRegistries
    /\ rpc = "built"
    /\ scIdx = 1
    /\ stIdx = 1
    /\ all_passed = TRUE
    /\ executed = <<>>
    /\ reported = <<>>
    /\ runpc = IF feature = <<>> THEN "done" ELSE "steps"
    \* match_step results are not kept; the batch executor
    \* (BatchConfig::default), the comparison engine, the result tree and
    \* the performance monitor are not used
    /\ stepText = <<>>
    /\ matched = None
    /\ config = [parallel |-> TRUE, max_workers |-> MaxWorkers,
                 continue_on_failure |-> TRUE]
    /\ bpc = "idle"
    /\ paths = <<>>
    /\ total = 0
    /\ completed = 0
    /\ lockHolder = 0
    /\ claimed = {}
    /\ calls = <<>>
    /\ returned = <<>>
    /\ worker = [w \in Workers |-> IdleWorker]
    /\ slots = <<>>
    /\ batch = None
    /\ baseline = None
    /\ current = None
    /\ cpc = "ready"
    /\ comparison = None
    /\ scenario = None
    /\ result = None
    /\ rop = "none"
    /\ supdates = 0
    /\ rcalls = 0
    /\ monitor = None
    /\ alertConfig = None
    /\ alerts = <<>>
    /\ mop = "none"
    /\ mrecords = 0
    /\ evals = 0
    /\ now = 0
    \* no step catalog is in use
    /\ catalog = <<>>
    /\ catpc = "building"
    /\ vtext = <<>>
    /\ validated = "none"
    \* no second scenario is being built
    /\ other = None
    /\ oop = "none"

\* lines 4548-4554: the step line is printed, the text matches an entry and
\* execute_step is called; main is suspended at the .await until the browser
\* work is done (it may never be)
StepCall ==
    /\ runpc = "steps"
    /\ stIdx <= Len(feature[scIdx])
    /\ MatchStepOf(registry, feature[scIdx][stIdx]) # None
    /\ runpc' = "awaiting"
    /\ UNCHANGED <<feature, scIdx, stIdx, all_passed, executed, reported>>
    /\ UNCHANGED <<batchVars, cmpVars, regVars, resVars, monVars, catVars, twinVars>>

\* execute_step returns Ok (ok) or Err, lines 4554 and 4567-4581
StepReturn(ok) ==
    /\ runpc = "awaiting"
    /\ LET text == feature[scIdx][stIdx]
           res == StepResultOf(registry, text, ok)
       IN  /\ executed' = Append(executed,
                 [scenario |-> scIdx, step |-> stIdx, text |-> text,
                  ok |-> res])
           /\ all_passed' = (IF res THEN all_passed ELSE FALSE)
           /\ runpc' = AfterStep(res)
    /\ stIdx' = stIdx + 1
    /\ UNCHANGED <<feature, scIdx, reported>>
    /\ UNCHANGED <<batchVars, cmpVars, regVars, resVars, monVars, catVars, twinVars>>

\* lines 4548-4552 and 4556-4581: the text matches no entry; the result is
\* made on the spot, nothing is awaited
StepUnmatched ==
    /\ runpc = "steps"
    /\ stIdx <= Len(feature[scIdx])
    /\ MatchStepOf(registry, feature[scIdx][stIdx]) = None
    /\ LET text == feature[scIdx][stIdx]
           res == StepResultOf(registry, text, FALSE)
       IN  /\ executed' = Append(executed,
                 [scenario |-> scIdx, step |-> stIdx, text |-> text,
                  ok |-> res])
           /\ all_passed' = (IF res THEN all_passed ELSE FALSE)
           /\ runpc' = AfterStep(res)
    /\ stIdx' = stIdx + 1
    /\ UNCHANGED <<feature, scIdx, reported>>
    /\ UNCHANGED <<batchVars, cmpVars, regVars, resVars, monVars, catVars, twinVars>>

\* the loop over step_idx ends, line 4548
StepsDone ==
    /\ runpc = "steps"
    /\ stIdx > Len(feature[scIdx])
    /\ runpc' = "report"
    /\ UNCHANGED <<feature, scIdx, stIdx, all_passed, executed, reported>>
    /\ UNCHANGED <<batchVars, cmpVars, regVars, resVars, monVars, catVars, twinVars>>

\* lines 4583-4589 and the next iteration of the loop over the scenarios,
\* lines 4542-4546
ReportScenario ==
    /\ runpc = "report"
    /\ reported' = Append(reported, IF all_passed THEN "PASSED" ELSE "FAILED")
    /\ scIdx' = scIdx + 1
    /\ stIdx' = 1
    /\ all_passed' = TRUE
    /\ runpc' = IF scIdx + 1 > Len(feature) THEN "done" ELSE "steps"
    /\ UNCHANGED <<feature, executed>>
    /\ UNCHANGED <<batchVars, cmpVars, regVars, resVars, monVars, catVars, twinVars>>

RunNext ==
    \/ StepCall
    \/ \E ok \in BOOLEAN : StepReturn(ok)
    \/ StepUnmatched
    \/ StepsDone
    \/ ReportScenario

SpecRun == RunInit /\ [][RunNext]_vars

(***************************************************************************)
(* Claims on the runner's main loop                                        *)
(***************************************************************************)
ExecutedOf(sc) == {i \in 1..Len(executed) : executed[i].scenario = sc}

Unmatched(text) ==
    \A k \in 1..Len(registry) : ~IsMatch(registry[k].pattern, text)

\* the steps of a scenario run in order 1, 2, ..., scenario after scenario
StepsInOrder ==
    \A i \in 1..Len(executed) :
        /\ executed[i].step =
              Cardinality({j \in ExecutedOf(executed[i].scenario) : j <= i})
        /\ executed[i].text = feature[executed[i].scenario][executed[i].step]
        /\ \A j \in 1..i : executed[j].scenario <= executed[i].scenario

\* no step of a scenario runs after a step of it failed
StopsAtFirstFailure ==
    \A i, j \in 1..Len(executed) :
        (i < j /\ executed[i].scenario = executed[j].scenario)
            => executed[i].ok

\* a scenario is reported failed exactly when one of its steps failed
ReportedFailed ==
    \A sc \in 1..Len(reported) :
        (reported[sc] = "FAILED") <=> (\E i \in ExecutedOf(sc) : ~executed[i].ok)

\* every scenario is run and reported, whatever happened before it
FollowingScenariosRun ==
    runpc = "done" =>
        /\ Len(reported) = Len(feature)
        /\ \A sc \in 1..Len(feature) :
              Len(feature[sc]) > 0 => ExecutedOf(sc) # {}

\* C15 as stated: within one scenario the runner executes the steps
\* strictly in order and stops at the first step that fails, a step whose
\* text matches no pattern counting as a failure; no later step of that
\* scenario is executed, the scenario is reported as failed, and the
\* following scenarios are still run.
C15_FailFastUnmatchedFails ==
    /\ StepsInOrder
    /\ \A i \in 1..Len(executed) :
          Unmatched(executed[i].text) => ~executed[i].ok
    /\ StopsAtFirstFailure
    /\ ReportedFailed
    /\ FollowingScenariosRun

\* C15 amended: as above, but a step whose text matches no pattern counts
\* as a failure unless the text is exactly "a browser is available" or
\* "a browser backend is available", which counts as passed.
C15_FailFastKnownTexts ==
    /\ StepsInOrder
    /\ \A i \in 1..Len(executed) :
          Unmatched(executed[i].text) =>
             (executed[i].ok <=>
                executed[i].text \in {BrowserAvailable,
                                      BrowserBackendAvailable})
    /\ StopsAtFirstFailure
    /\ ReportedFailed
    /\ FollowingScenariosRun

\* a first scenario stopped at its unmatched first step with a step left,
\* reported failed, and the second scenario run after it
C15_Witness ==
    /\ runpc = "done"
    /\ Len(feature) = 2
    /\ Len(feature[1]) = 2
    /\ feature[1][1] = <<"1">>
    /\ Unmatched(<<"1">>)
    /\ Cardinality(ExecutedOf(1)) = 1
    /\ reported[1] = "FAILED"
    /\ ExecutedOf(2) # {}
    /\ reported[2] = "PASSED"

(***************************************************************************)
(* Live matcher table and step catalog                                     *)
(*                                                                         *)
(* build_step_registry (src/examples/gherkin_runner.rs) and                *)
(* build_step_catalog (src/src/discovery/catalog.rs) are two tables        *)
(* written out by hand.  The model holds, in source order, the entries of  *)
(* both tables for the identifiers navigate_to, navigate_to_hackernews,    *)
(* go_back, press_enter, press_tab and pin_tab; no pattern or alias of the *)
(* other catalog entries matches one of the texts used here.               *)
(***************************************************************************)
LitSeq(chars) == [i \in 1..Len(chars) |-> Lit(chars[i])]

\* "([^"]+)"
Quoted == <<Lit("\""), Group(NotQuote), Lit("\"")>>

\* StepInfo, catalog.rs lines 14-23: the fields validate_step reads
StepInfo(id, p, als) == [id |-> id, pattern |-> p, aliases |-> als]

\* build_step_registry: its register statements for the six identifiers
RegistryTable ==
    <<
       \* line 94: I navigate to "([^"]+)"
       Entry(LitSeq(<<"I", " ", "n", "a", "v", "i", "g", "a", "t", "e",
                      " ", "t", "o", " ">>) \o Quoted,
             "navigate_to"),
       \* line 95: I go to "([^"]+)"
       Entry(LitSeq(<<"I", " ", "g", "o", " ", "t", "o", " ">>) \o Quoted,
             "navigate_to"),
       \* line 96: I open "([^"]+)"
       Entry(LitSeq(<<"I", " ", "o", "p", "e", "n", " ">>) \o Quoted,
             "navigate_to"),
       \* line 97: I visit "([^"]+)"
       Entry(LitSeq(<<"I", " ", "v", "i", "s", "i", "t", " ">>) \o Quoted,
             "navigate_to"),
       \* line 98: I navigate to Hacker News
       Entry(LitSeq(<<"I", " ", "n", "a", "v", "i", "g", "a", "t", "e",
                      " ", "t", "o", " ", "H", "a", "c", "k", "e", "r",
                      " ", "N", "e", "w", "s">>),
             "navigate_to_hackernews"),
       \* line 99: I go to Hacker News
       Entry(LitSeq(<<"I", " ", "g", "o", " ", "t", "o", " ", "H", "a",
                      "c", "k", "e", "r", " ", "N", "e", "w", "s">>),
             "navigate_to_hackernews"),
       \* line 102: I go back
       Entry(LitSeq(<<"I", " ", "g", "o", " ", "b", "a", "c", "k">>),
             "go_back"),
       \* line 103: I navigate back
       Entry(LitSeq(<<"I", " ", "n", "a", "v", "i", "g", "a", "t", "e",
                      " ", "b", "a", "c", "k">>),
             "go_back"),
       \* line 236: I press the Enter key
       Entry(LitSeq(<<"I", " ", "p", "r", "e", "s", "s", " ", "t", "h",
                      "e", " ", "E", "n", "t", "e", "r", " ", "k", "e",
                      "y">>),
             "press_enter"),
       \* line 237: I press Enter
       Entry(LitSeq(<<"I", " ", "p", "r", "e", "s", "s", " ", "E", "n",
                      "t", "e", "r">>),
             "press_enter"),
       \* line 240: I press Tab key
       Entry(LitSeq(<<"I", " ", "p", "r", "e", "s", "s", " ", "T", "a",
                      "b", " ", "k", "e", "y">>),
             "press_tab"),
       \* line 241: I press Tab
       Entry(LitSeq(<<"I", " ", "p", "r", "e", "s", "s", " ", "T", "a",
                      "b">>),
             "press_tab"),
       \* line 997: I pin tab
       Entry(LitSeq(<<"I", " ", "p", "i", "n", " ", "t", "a", "b">>),
             "pin_tab")
    >>

\* build_step_catalog: its add_step statements for the six identifiers
CatalogTable ==
    <<
       \* line 825: I navigate to "([^"]+)", aliases I go to "([^"]+)" and I open "([^"]+)" and I visit "([^"]+)"
       StepInfo("navigate_to",
                LitSeq(<<"I", " ", "n", "a", "v", "i", "g", "a", "t",
                         "e", " ", "t", "o", " ">>) \o Quoted,
                <<LitSeq(<<"I", " ", "g", "o", " ", "t", "o", " ">>) \o Quoted,
                  LitSeq(<<"I", " ", "o", "p", "e", "n", " ">>) \o Quoted,
                  LitSeq(<<"I", " ", "v", "i", "s", "i", "t", " ">>) \o Quoted>>),
       \* line 889: I press the Enter key, aliases I press Enter
       StepInfo("press_enter",
                LitSeq(<<"I", " ", "p", "r", "e", "s", "s", " ", "t",
                         "h", "e", " ", "E", "n", "t", "e", "r", " ",
                         "k", "e", "y">>),
                <<LitSeq(<<"I", " ", "p", "r", "e", "s", "s", " ", "E",
                           "n", "t", "e", "r">>)>>),
       \* line 919: I press Tab key, aliases I press Tab
       StepInfo("press_tab",
                LitSeq(<<"I", " ", "p", "r", "e", "s", "s", " ", "T",
                         "a", "b", " ", "k", "e", "y">>),
                <<LitSeq(<<"I", " ", "p", "r", "e", "s", "s", " ", "T",
                           "a", "b">>)>>)
    >>

\* step texts: one per registered pattern shape
CatTexts ==
    {
      \* I go back
      <<"I", " ", "g", "o", " ", "b", "a", "c", "k">>,
      \* I navigate back
      <<"I", " ", "n", "a", "v", "i", "g", "a", "t", "e", " ", "b", "a",
        "c", "k">>,
      \* I pin tab
      <<"I", " ", "p", "i", "n", " ", "t", "a", "b">>,
      \* I press Tab
      <<"I", " ", "p", "r", "e", "s", "s", " ", "T", "a", "b">>,
      \* I press Enter
      <<"I", " ", "p", "r", "e", "s", "s", " ", "E", "n", "t", "e", "r">>,
      \* I go to "a"
      <<"I", " ", "g", "o", " ", "t", "o", " ", "\"", "a", "\"">>,
      \* I open "a"
      <<"I", " ", "o", "p", "e", "n", " ", "\"", "a", "\"">>,
      \* I go to Hacker News
      <<"I", " ", "g", "o", " ", "t", "o", " ", "H", "a", "c", "k", "e",
        "r", " ", "N", "e", "w", "s">>
    }

\* validate_step, step.rs lines 6-26: Ok when the pattern or an alias of
\* some StepInfo matches the text (Regex::is_match), Err otherwise
ValidateStepOf(cat, text) ==
    IF \E i \in 1..Len(cat) :
          \/ IsMatch(cat[i].pattern, text)
          \/ \E a \in 1..Len(cat[i].aliases) : IsMatch(cat[i].aliases[a], text)
    THEN "Ok"
    ELSE "Err"

\* StepRegistry::new() and StepCatalog::new()
CatInit ==
    /\ registry = <<>>
    /\ rpc = "building"
    /\ stepText = <<>>
    /\ matched = None
    /\ catalog = <<>>
    /\ catpc = "building"
    /\ vtext = <<>>
    /\ validated = "none"
    \* the batch executor (BatchConfig::default), the comparison engine,
    \* the result tree, the performance monitor and the main loop are not
    \* used
    /\ config = [parallel |-> TRUE, max_workers |-> MaxWorkers,
                 continue_on_failure |-> TRUE]
    /\ bpc = "idle"
    /\ paths = <<>>
    /\ total = 0
    /\ completed = 0
    /\ lockHolder = 0
    /\ claimed = {}
    /\ calls = <<>>
    /\ returned = <<>>
    /\ worker = [w \in Workers |-> IdleWorker]
    /\ slots = <<>>
    /\ batch = None
    /\ baseline = None
    /\ current = None
    /\ cpc = "ready"
    /\ comparison = None
    /\ scenario = None
    /\ result = None
    /\ rop = "none"
    /\ supdates = 0
    /\ rcalls = 0
    /\ monitor = None
    /\ alertConfig = None
    /\ alerts = <<>>
    /\ mop = "none"
    /\ mrecords = 0
    /\ evals = 0
    /\ now = 0
    /\ feature = <<>>
    /\ scIdx = 1
    /\ stIdx = 1
    /\ all_passed = TRUE
    /\ executed = <<>>
    /\ reported = <<>>
    /\ runpc = "done"
    \* no second scenario is being built
    /\ other = None
    /\ oop = "none"

\* the next registry.register(..) statement of build_step_registry
RegisterNext ==
    /\ rpc = "building"
    /\ Len(registry) < Len(RegistryTable)
    /\ registry' = Append(registry, RegistryTable[Len(registry) + 1])
    /\ UNCHANGED <<rpc, stepText, matched>>
    /\ UNCHANGED <<batchVars, cmpVars, resVars, monVars, runVars, catVars, twinVars>>

\* build_step_registry returns the registry
RegistryBuilt ==
    /\ rpc = "building"
    /\ Len(registry) = Len(RegistryTable)
    /\ rpc' = "built"
    /\ UNCHANGED <<registry, stepText, matched>>
    /\ UNCHANGED <<batchVars, cmpVars, resVars, monVars, runVars, catVars, twinVars>>

\* the next catalog.add_step(..) statement of build_step_catalog;
\* StepCatalog::add_step, catalog.rs lines 39-45 (categories left out)
CatalogAddStep ==
    /\ catpc = "building"
    /\ Len(catalog) < Len(CatalogTable)
    /\ catalog' = Append(catalog, CatalogTable[Len(catalog) + 1])
    /\ UNCHANGED <<catpc, vtext, validated>>
    /\ UNCHANGED <<batchVars, cmpVars, regVars, resVars, monVars, runVars, twinVars>>

\* build_step_catalog returns the catalog
CatalogBuilt ==
    /\ catpc = "building"
    /\ Len(catalog) = Len(CatalogTable)
    /\ catpc' = "built"
    /\ UNCHANGED <<catalog, vtext, validated>>
    /\ UNCHANGED <<batchVars, cmpVars, regVars, resVars, monVars, runVars, twinVars>>

\* parse_step_parameters(text, &registry), gherkin_runner.rs lines
\* 4515-4520: registry.match_step(text)
ParseStepParameters(text) ==
    /\ rpc = "built"
    /\ stepText' = text
    /\ matched' = MatchStepOf(registry, text)
    /\ UNCHANGED <<registry, rpc>>
    /\ UNCHANGED <<batchVars, cmpVars, resVars, monVars, runVars, catVars, twinVars>>

\* validate_step(text, n, &catalog), step.rs lines 6-65
ValidateStep(text) ==
    /\ catpc = "built"
    /\ vtext' = text
    /\ validated' = ValidateStepOf(catalog, text)
    /\ UNCHANGED <<catalog, catpc>>
    /\ UNCHANGED <<batchVars, cmpVars, regVars, resVars, monVars, runVars, twinVars>>

CatNext ==
    \/ RegisterNext
    \/ RegistryBuilt
    \/ CatalogAddStep
    \/ CatalogBuilt
    \/ \E t \in CatTexts : ParseStepParameters(t)
    \/ \E t \in CatTexts : ValidateStep(t)

SpecCat == CatInit /\ [][CatNext]_vars

(***************************************************************************)
(* Claims on the matcher table and the catalog                             *)
(***************************************************************************)
InCatalog(p) ==
    \E i \in 1..Len(catalog) :
        \/ catalog[i].pattern = p
        \/ \E a \in 1..Len(catalog[i].aliases) : catalog[i].aliases[a] = p

\* C16: every pattern registered in the live matcher table is also in the
\* catalog, as the pattern or an alias of some StepInfo, so that every
\* step text for which match_step returns a match is also accepted by
\* validate_step.
C16_RegistryInCatalog ==
    (rpc = "built" /\ catpc = "built") =>
        /\ \A k \in 1..Len(registry) : InCatalog(registry[k].pattern)
        /\ (stepText = vtext /\ validated # "none" /\ matched # None)
              => validated = "Ok"

(***************************************************************************)
(* Further claims on the batch executor                                    *)
(***************************************************************************)

\* C17: when config.parallel is false or at most one path is given,
\* execute invokes the runner on the paths one at a time in list order (the
\* call for paths[i+1] starts only after the call for paths[i] has
\* returned), and results[i] is the record for paths[i] for every i.
C17_SequentialInOrder ==
    (bpc # "idle" /\ (~config.parallel \/ Len(paths) <= 1)) =>
        /\ \A i \in claimed : \A j \in 1..(i - 1) :
              j \in claimed /\ returned[j] # None /\ slots[j] # None
        /\ Cardinality({i \in claimed : returned[i] = None}) <= 1
        /\ \A i \in PathIdx : calls[i] <= 1
        /\ bpc = "done" =>
              /\ Len(batch.results) = Len(paths)
              /\ \A i \in PathIdx :
                    /\ batch.results[i].path = paths[i]
                    /\ batch.results[i].result =
                          IF returned[i].ok THEN returned[i].result ELSE None

\* a sequential batch of three paths: the first is finished, the runner is
\* at work on the second, the third has not been started
C17_Witness ==
    /\ bpc = "running"
    /\ ~config.parallel
    /\ Len(paths) = 3
    /\ claimed = {1, 2}
    /\ slots[1] # None
    /\ returned[2] = None
    /\ worker[1].pc = "called"
    /\ worker[1].idx = 2

\* C18: for every path whose runner returned Err(message), the BatchResult
\* holds exactly one BatchError whose path is that path and whose message
\* is the message the runner returned.
C18_ErrorMessageKept ==
    bpc = "done" =>
        \A i \in ErrIdx :
            Cardinality({k \in 1..Len(batch.errors) :
                            /\ batch.errors[k].path = paths[i]
                            /\ batch.errors[k].error = returned[i].message}) = 1

(***************************************************************************)
(* Further claims about the comparison engine (checked under SpecCmp)      *)
(***************************************************************************)
\* the steps of text t of a result, over all its scenarios, and the sum of
\* the durations of a list of steps
StepsTexted(r, t) == SelectSeq(AllSteps(r.scenarios), LAMBDA s : s.text = t)

RECURSIVE SumDurations(_)
SumDurations(steps) ==
    IF steps = <<>> THEN 0
    ELSE Head(steps).duration_ms + SumDurations(Tail(steps))

\* current mean - baseline mean and baseline mean of the steps of text t,
\* both multiplied by the two step counts (positive when t is on both sides)
MeanGap(t) ==
    SumDurations(StepsTexted(current, t)) * Len(StepsTexted(baseline, t))
      - SumDurations(StepsTexted(baseline, t)) * Len(StepsTexted(current, t))

MeanBase(t) ==
    SumDurations(StepsTexted(baseline, t)) * Len(StepsTexted(current, t))

StepChangesFor(t) ==
    {ch \in comparison.step_performance_changes : ch.step_text = t}

StepRegressionsFor(t) ==
    {it \in comparison.regressions : it.step_text = Some(t)}

StepImprovementsFor(t) ==
    {it \in comparison.improvements : it.step_text = Some(t)}

\* C19: steps are grouped by exact text on each side and only the texts
\* present on both sides are compared, by the means of their durations: a
\* StepPerformanceChange is reported only when the means differ by more than
\* 5% of the baseline mean, a regression or improvement item is added only
\* when they differ by more than 10%, and a regression item is "high" when
\* the increase exceeds 50% and "medium" otherwise.
C19_StepMeanThresholds ==
    cpc = "done" =>
        \A t \in StepTextsOf(baseline) \cup StepTextsOf(current) :
            /\ t \notin StepTextsOf(baseline) \cap StepTextsOf(current) =>
                  /\ StepChangesFor(t) = {}
                  /\ StepRegressionsFor(t) = {}
                  /\ StepImprovementsFor(t) = {}
            /\ StepChangesFor(t) # {} => 100 * Abs(MeanGap(t)) > 5 * MeanBase(t)
            /\ StepRegressionsFor(t) # {} =>
                  /\ MeanGap(t) > 0
                  /\ 100 * MeanGap(t) > 10 * MeanBase(t)
            /\ StepImprovementsFor(t) # {} =>
                  /\ MeanGap(t) < 0
                  /\ 100 * (0 - MeanGap(t)) > 10 * MeanBase(t)
            /\ \A it \in StepRegressionsFor(t) :
                  it.severity = IF 100 * MeanGap(t) > 50 * MeanBase(t)
                                THEN "high" ELSE "medium"

\* the scenario names of a result, and the scenario the comparison sees for
\* a name (the maps of lines 176-186 keep the last scenario of a name)
NamesIn(r) == {r.scenarios[i].name : i \in 1..Len(r.scenarios)}

RecordedAs(r, n) ==
    r.scenarios[CHOOSE i \in 1..Len(r.scenarios) :
                    r.scenarios[i].name = n /\ IsRecorded(r, i)]

ChangesNamed(n) == {ch \in comparison.scenario_changes : ch.scenario_name = n}

\* the change_type the claim gives to a name in both results
MatchedChangeType(b, c) ==
    IF b.status # c.status THEN "status_changed"
    ELSE IF c.duration_ms < b.duration_ms THEN "duration_improved"
    ELSE IF c.duration_ms > b.duration_ms THEN "duration_regressed"
    ELSE "unchanged"

\* C20: compare_results produces exactly one ScenarioChange per distinct
\* scenario name of baseline or current: "removed" for a name only in
\* baseline, "new" for a name only in current, and for a name in both
\* "status_changed" if the statuses differ, else "duration_improved",
\* "duration_regressed" or "unchanged" as the current duration is lower than,
\* higher than or equal to the baseline duration.
C20_OneChangePerName ==
    cpc = "done" =>
        /\ \A ch \in comparison.scenario_changes :
              ch.scenario_name \in NamesIn(baseline) \cup NamesIn(current)
        /\ \A n \in NamesIn(baseline) \cup NamesIn(current) :
              /\ Cardinality(ChangesNamed(n)) = 1
              /\ \A ch \in ChangesNamed(n) :
                    ch.change_type =
                       IF n \notin NamesIn(current) THEN "removed"
                       ELSE IF n \notin NamesIn(baseline) THEN "new"
                       ELSE MatchedChangeType(RecordedAs(baseline, n),
                                              RecordedAs(current, n))

\* one name removed, the other in both results with different statuses and a
\* lower current duration
C20_Witness ==
    /\ cpc = "done"
    /\ NamesIn(baseline) = {"A", "B"}
    /\ NamesIn(current) = {"A"}
    /\ RecordedAs(baseline, "A").status # RecordedAs(current, "A").status
    /\ RecordedAs(current, "A").duration_ms < RecordedAs(baseline, "A").duration_ms
    /\ \E ch \in ChangesNamed("A") : ch.change_type = "status_changed"
    /\ \E ch \in ChangesNamed("B") : ch.change_type = "removed"
    /\ Cardinality(comparison.scenario_changes) = 2

(***************************************************************************)
(* Further claims on the result tree (checked under SpecRes)               *)
(***************************************************************************)
\* C21 as stated: a ScenarioResult that has no steps has status "pending"
\* after any number of update_status calls.
C21_ZeroStepsStayPending ==
    Len(scenario.steps) = 0 => scenario.status = "pending"

\* C21: a ScenarioResult that has no steps is "pending" until its first
\* update_status call and "skipped" after one or more update_status calls.
C21_ZeroStepsSkipped ==
    Len(scenario.steps) = 0 =>
        scenario.status = IF supdates = 0 THEN "pending" ELSE "skipped"

\* update_status was called twice on a scenario without steps
C21_Witness ==
    /\ Len(scenario.steps) = 0
    /\ rop = "update_status"
    /\ supdates = 2
    /\ scenario.status = "skipped"

\* the status the derivation rule gives to a list of steps of a scenario
\* that was "pending"
DerivedStatus(steps) ==
    IF \E i \in 1..Len(steps) : steps[i].status = "failed" THEN "failed"
    ELSE IF \A i \in 1..Len(steps) : steps[i].status = "skipped" THEN "skipped"
    ELSE IF \E i \in 1..Len(steps) : steps[i].status = "passed" THEN "passed"
    ELSE "pending"

DerivedRunStatus(summary) ==
    IF summary.failed_steps > 0 THEN "failed"
    ELSE IF summary.passed_steps > 0 THEN "passed"
    ELSE "skipped"

\* C22: immediately after each ScenarioResult::add_step the scenario's status
\* is the status derived from its current steps, and immediately after each
\* ExecutionResult::add_scenario the run status is the status derived from
\* its summary, without an update_status call.
C22_StatusOnEveryMutation ==
    /\ rop = "add_step" => scenario.status = DerivedStatus(scenario.steps)
    /\ rop = "add_scenario" => result.status = DerivedRunStatus(result.summary)

\* the counters obtained by folding once over the scenarios held
RECURSIVE FoldSummary(_)
FoldSummary(scs) ==
    IF scs = <<>> THEN ExecutionSummaryNew
    ELSE LET rest == FoldSummary(Tail(scs))
             sc == Head(scs)
             One(b) == IF b THEN 1 ELSE 0
         IN  [total_scenarios |-> rest.total_scenarios + 1,
              passed_scenarios |-> rest.passed_scenarios + One(sc.status = "passed"),
              failed_scenarios |-> rest.failed_scenarios + One(sc.status = "failed"),
              skipped_scenarios |-> rest.skipped_scenarios + One(sc.status = "skipped"),
              total_steps |-> rest.total_steps + Len(sc.steps),
              passed_steps |-> rest.passed_steps + CountStatus(sc.steps, "passed"),
              failed_steps |-> rest.failed_steps + CountStatus(sc.steps, "failed"),
              skipped_steps |-> rest.skipped_steps + CountStatus(sc.steps, "skipped")]

\* C23: after any sequence of add_scenario calls summary.total_scenarios is
\* scenarios.len() and every counter of the summary is the count obtained by
\* folding once over the scenarios held and their steps.
C23_SummaryIsRollup ==
    rop = "add_scenario" =>
        /\ result.summary.total_scenarios = Len(result.scenarios)
        /\ result.summary = FoldSummary(result.scenarios)

(***************************************************************************)
(* Claim on two scenarios (checked under SpecTwin)                         *)
(***************************************************************************)
\* C30: the status that update_status leaves is a function of the current
\* steps alone: two scenarios holding equal step lists have equal status
\* after update_status, whatever add_step and update_status calls preceded.
C30_StatusFunctionOfSteps ==
    (rop = "update_status" /\ oop = "update_status"
       /\ scenario.steps = other.steps) =>
        scenario.status = other.status

(***************************************************************************)
(* Further claims on the performance monitor (checked under SpecMon)       *)
(***************************************************************************)
\* every AlertMetric, the custom one with the key the model sets
AllMetrics ==
    {Metric(k) : k \in {"ScenarioDurationMs", "StepDurationMs",
                        "FailureRatePercent", "TotalDurationMs",
                        "ScenariosPerSecond", "StepsPerSecond",
                        "MemoryUsageMb"}}
    \cup {CustomMetric(MonKey)}

\* the value of a metric at a time since new(); only the three metrics of
\* ReadsClock depend on the time
ValueAt(mon, m, elapsed) ==
    GetMetricValue(mon, m, IF ReadsClock(m) THEN elapsed ELSE 0)

\* an evaluation wrote none of the fields the metrics are computed from,
\* and returned (at most one alert per threshold)
EvaluationKeepsRecords ==
    /\ monitor'.scenario_durations = monitor.scenario_durations
    /\ monitor'.step_durations = monitor.step_durations
    /\ monitor'.scenario_count = monitor.scenario_count
    /\ monitor'.step_count = monitor.step_count
    /\ monitor'.failed_scenarios = monitor.failed_scenarios
    /\ monitor'.skipped_scenarios = monitor.skipped_scenarios
    /\ monitor'.custom_metrics = monitor.custom_metrics
    /\ mop' = "evaluate_thresholds"
    /\ Len(alerts') <= Len(alertConfig'.thresholds)

\* C24 as stated: for every config, evaluate_thresholds leaves the scenario
\* and step duration lists, scenario_count, step_count, failed_scenarios,
\* skipped_scenarios and the custom metrics of the monitor unchanged and
\* returns; every metric has the same value after the call as before it.
\* The clock goes on during the call: TotalDurationMs, ScenariosPerSecond
\* and StepsPerSecond read after the call differ from what they were before.
C24_SameValuesAcrossCall ==
    [][evals' # evals =>
         /\ EvaluationKeepsRecords
         /\ \A m \in AllMetrics :
               ValueAt(monitor', m, now') = ValueAt(monitor, m, now)]_vars

\* C24, amended: for every config, evaluate_thresholds leaves the scenario
\* and step duration lists, scenario_count, step_count, failed_scenarios,
\* skipped_scenarios and the custom metrics of the monitor unchanged and
\* returns; every metric that does not read the clock has the same value
\* after the call as before it, and TotalDurationMs, ScenariosPerSecond and
\* StepsPerSecond have after the call the value that the monitor as it was
\* before the call gives at that same time.
C24_EvaluationObservational ==
    [][evals' # evals =>
         /\ EvaluationKeepsRecords
         /\ \A m \in AllMetrics :
               ValueAt(monitor', m, now') = ValueAt(monitor, m, now')]_vars

\* an evaluation that raised alerts, the clock past the time of new(), on a
\* monitor holding a scenario, a step and a custom metric
C24_Witness ==
    /\ mop = "evaluate_thresholds"
    /\ alertConfig.enabled
    /\ alerts # <<>>
    /\ monitor.alerts = alerts
    /\ now > 0
    /\ monitor.scenario_count = 1
    /\ monitor.step_count = 1
    /\ monitor.custom_metrics # {}

\* C28: after any sequence of record_scenario, record_step, set_metric and
\* evaluate_thresholds calls on a new PerformanceMonitor, scenario_count is
\* the number of recorded scenario durations, step_count the number of
\* recorded step durations, and failed_scenarios + skipped_scenarios is at
\* most scenario_count, so the subtraction of get_summary stays at or above 0.
C28_MonitorCountsConsistent ==
    /\ monitor.scenario_count = Len(monitor.scenario_durations)
    /\ monitor.step_count = Len(monitor.step_durations)
    /\ monitor.failed_scenarios + monitor.skipped_scenarios <= monitor.scenario_count
    /\ monitor.scenario_count - monitor.failed_scenarios
          - monitor.skipped_scenarios >= 0

\* a failed scenario with a step, a step recorded alone, and a skipped
\* scenario: no scenario passed
C28_Witness ==
    /\ mrecords = 3
    /\ monitor.failed_scenarios = 1
    /\ monitor.skipped_scenarios = 1
    /\ monitor.scenario_count = 2
    /\ monitor.step_count = 2
    /\ Len(monitor.step_durations) = 2

(***************************************************************************)
(* Claim on the parameters of match_step (checked under SpecAlt)           *)
(***************************************************************************)
\* the Options of the groups of the first entry that matches the text
MatchedCaps ==
    LET i == CHOOSE j \in MatchingEntries : \A k \in MatchingEntries : j <= k
    IN  Captures(registry[i].pattern, stepText)[1]

Participating(caps) == {g \in 1..Len(caps) : caps[g] # Absent}

\* C25: the parameter list match_step returns holds the values of the
\* capture groups that took part in the match, in left-to-right order; a
\* group of an alternation branch that took no part is omitted, not replaced
\* by an empty string, so the list can be shorter than the number of groups.
C25_ParticipatingGroupsOnly ==
    (rpc = "matched" /\ matched # None) =>
        LET caps == MatchedCaps
            part == Participating(caps)
        IN  /\ Len(matched.params) = Cardinality(part)
            /\ \A g \in part :
                  matched.params[Cardinality({h \in part : h <= g})] = caps[g][1]
            /\ \A j \in 1..Len(matched.params) : matched.params[j] # <<>>

\* (a+)(?:(\d+)|("+)) on the text aa": groups 1 and 3 took part, the list
\* has two values for three groups and its second value is that of group 3
C25_Witness ==
    /\ rpc = "matched"
    /\ registry[1].pattern = PatGroupThenEither
    /\ stepText = <<"a", "a", "\"">>
    /\ MatchedCaps = <<Some(<<"a", "a">>), Absent, Some(<<"\"">>)>>
    /\ matched.params = <<(<<"a", "a">>), (<<"\"">>)>>
    /\ Len(matched.params) < NumGroups(registry[1].pattern)

(***************************************************************************)
(* Claims on compare_results as a function (checked under SpecCmp)         *)
(***************************************************************************)
\* the results holding the scenarios of r in every order
Reorderings(r) ==
    LET n == Len(r.scenarios)
    IN  {[r EXCEPT !.scenarios = [i \in 1..n |-> r.scenarios[f[i]]]] :
            f \in {g \in [1..n -> 1..n] : \A i, j \in 1..n : g[i] = g[j] => i = j}}

\* what the claim compares: the status and the four sets
Outcome(c) ==
    <<c.status, c.scenario_changes, c.regressions, c.improvements,
      c.step_performance_changes>>

UniqueNames(r) ==
    \A i, j \in 1..Len(r.scenarios) :
        r.scenarios[i].name = r.scenarios[j].name => i = j

\* C26 as stated: compare_results changes neither input, and permuting the
\* scenarios within baseline or within current leaves the status and the
\* sets of scenario changes, regressions, improvements and step performance
\* changes the same.
C26_OrderIndependent ==
    [][(cpc = "ready" /\ cpc' = "done") =>
         /\ baseline' = baseline
         /\ current' = current
         /\ \A b \in Reorderings(baseline), c \in Reorderings(current) :
               Outcome(CompareResults(b, c)) = Outcome(comparison')]_vars

\* C26: compare_results changes neither input, and when no scenario name
\* repeats within baseline or within current, permuting the scenarios within
\* either leaves the status and the sets of scenario changes, regressions,
\* improvements and step performance changes the same.
C26_OrderIndependentUniqueNames ==
    [][(cpc = "ready" /\ cpc' = "done") =>
         /\ baseline' = baseline
         /\ current' = current
         /\ (UniqueNames(baseline) /\ UniqueNames(current)) =>
               \A b \in Reorderings(baseline), c \in Reorderings(current) :
                  Outcome(CompareResults(b, c)) = Outcome(comparison')]_vars

\* two baseline scenarios of different names, each with a step of the same
\* text and a different duration, compared with one current scenario
C26_Witness ==
    /\ cpc = "done"
    /\ UniqueNames(baseline)
    /\ Len(baseline.scenarios) = 2
    /\ Len(current.scenarios) = 1
    /\ baseline.scenarios[1].steps = <<StepOf("s", 10)>>
    /\ baseline.scenarios[2].steps = <<StepOf("s", 30)>>
    /\ current.scenarios[1].steps = <<StepOf("s", 30)>>
    /\ comparison.step_performance_changes # {}
    /\ Cardinality(comparison.scenario_changes) = 2

\* C29: a scenario that goes from "failed" in baseline to "passed" in
\* current adds no improvement item by its status change alone: when nothing
\* else differs between the two results (durations and steps are equal), the
\* status is "unchanged" and there is no improvement, although the
\* scenario's change_type is "status_changed".
C29_FixedScenarioNoImprovement ==
    cpc = "done" =>
        \A i \in 1..Len(baseline.scenarios) :
            (/\ baseline.scenarios[i].status = "failed"
             /\ IsRecorded(baseline, i)
             /\ current = [baseline EXCEPT !.scenarios[i].status = "passed"]) =>
                /\ comparison.status = "unchanged"
                /\ comparison.improvements = {}
                /\ \E ch \in comparison.scenario_changes :
                      /\ ch.scenario_name = baseline.scenarios[i].name
                      /\ ch.previous_status = "failed"
                      /\ ch.current_status = "passed"
                      /\ ch.change_type = "status_changed"

\* one scenario with a step, failed in baseline and passed in current, and
\* nothing else different
C29_Witness ==
    /\ cpc = "done"
    /\ Len(baseline.scenarios) = 1
    /\ baseline.scenarios[1].status = "failed"
    /\ baseline.scenarios[1].steps # <<>>
    /\ baseline.scenarios[1].duration_ms = 100
    /\ current = [baseline EXCEPT !.scenarios[1].status = "passed"]
    /\ comparison.status = "unchanged"
    /\ \E ch \in comparison.scenario_changes : ch.change_type = "status_changed"

(***************************************************************************)
(* Claim on the feature counts of a batch (checked under SpecBatch)        *)
(***************************************************************************)
\* C27: for every BatchResult returned by execute, passed_features +
\* failed_features <= total_features, with equality exactly when every
\* runner result that succeeded has status "passed" or "failed", and
\* errors.len() <= failed_features.
C27_FeatureCountsBounded ==
    bpc = "done" =>
        /\ batch.passed_features + batch.failed_features <= batch.total_features
        /\ batch.passed_features + batch.failed_features = batch.total_features
              <=> \A i \in OkIdx :
                     returned[i].result.status \in {"passed", "failed"}
        /\ Len(batch.errors) <= batch.failed_features

\* a finished batch of three features: the runner erred on one, returned a
\* "skipped" result for another and a "failed" one for the third
C27_Witness ==
    /\ bpc = "done"
    /\ Len(paths) = 3
    /\ Cardinality(ErrIdx) = 1
    /\ \E i \in OkIdx : returned[i].result.status = "skipped"
    /\ \E i \in OkIdx : returned[i].result.status = "failed"
    /\ batch.passed_features + batch.failed_features = 2
    /\ Len(batch.errors) = 1
    /\ batch.failed_features = 2
====
